---- MODULE Spec2Model ----
(***************************************************************************)
(* Verification model of cryptmalloc's VirtualMemoryPool                   *)
(* (src/src/allocator/pool.rs) together with the parts of                  *)
(* EncryptedMemoryBlock (src/src/allocator/block.rs) and NoiseState        *)
(* (src/src/crypto/noise.rs) that the pool drives.                         *)
(*                                                                         *)
(* Ciphertexts are modelled by their plaintext projection plus the         *)
(* NoiseState that the typed integer layer attaches to them; encryption    *)
(* and decryption themselves are the oracle of the homomorphic library     *)
(* and are assumed not to fail.                                            *)
(*                                                                         *)
(* Scaling.  Addresses and sizes are counted in bytes, but the pool is     *)
(* a few bytes long instead of at least 4096; BlockHandleValue is a        *)
(* HandleMax-bounded integer instead of u32; the noise capacity of the     *)
(* context is NoiseCapacity instead of 48..160 (the cost of an addition    *)
(* keeps its source value 4, so the budget is spent after                  *)
(* NoiseCapacity \div 4 chained additions instead of 12..40); u32::MAX,     *)
(* where saturating and checked arithmetic stop, is U32_MAX.               *)
(* In the source the handle space (2^32) is larger than the largest pool   *)
(* the builder accepts (2^30 bytes); HandleMax is taken below TotalBytes   *)
(* so that the HandleSpaceExhausted branch of alloc_handle is exercised.   *)
(*                                                                         *)
(* The tiered allocator CryptMalloc (src/src/allocator.rs) with its        *)
(* SlabClass tiers (src/src/slab.rs) and its Arena (src/src/arena.rs) is   *)
(* modelled next to the pool.  FheBool and FheUint64 ciphertexts are their *)
(* plaintexts, if_then_else is IF/THEN/ELSE, and FheUint64 arithmetic      *)
(* wraps at U64_MODULUS instead of 2^64.  The five tiers keep their block  *)
(* sizes 16..256 and the halving of their slot counts, but the first tier  *)
(* holds NumBlocks slots instead of 1024 and no tier fewer than one.       *)
(*                                                                         *)
(* The typed ciphertext layer (src/src/crypto/operations.rs and            *)
(* src/src/types/) is modelled on EncryptedUint8 alone: the macro that     *)
(* defines it defines the wider integers with the same bodies.  Its        *)
(* largest value is U8_MAX instead of 255.  Two contexts of the small      *)
(* noise capacity and one of SecureNoiseCapacity (instead of 160) stand    *)
(* for the three security profiles.                                        *)
(*                                                                         *)
(* The key envelope (src/src/crypto/tfhe_context.rs) keeps its layout:     *)
(* a payload, then a digest of it.  The three opaque keys are one byte     *)
(* each, bincode's encoding of the payload is written out byte by byte,    *)
(* and Sha256 is an injective map of the payload, which is the property    *)
(* from_serialized relies on.                                              *)
(*                                                                         *)
(* Clones of a pool share one PoolState behind a lock; a clone that        *)
(* panics in a call poisons the lock, and a dropped clone clears the       *)
(* shared state.  Server keys are numbered in the order Keys::new makes    *)
(* them: the thread's installed key and GLOBAL_SERVER_KEY each hold one    *)
(* number, and the homomorphic operations record the number they ran       *)
(* under.  The stack of the EVM (src/src/evm.rs) holds StackCap words      *)
(* instead of 1024, and its words range over 0..MaxWord.                   *)
(***************************************************************************)
EXTENDS Integers, Sequences, FiniteSets, TLC

(* ------------------------------ bounds ------------------------------- *)

TotalBytes == 7
HandleMax == 4
NoiseCapacity == 8
MaxAllocations == 4
U32_MAX == 63
U8_MAX == 2
SecureNoiseCapacity == 26
U64_MODULUS == 4096
NumBlocks == 2
ArenaSize == 600

BaseAddresses == {1}
MinAlignments == {1, 2}
NumWorkers == 2
Rounds == 2
MaxObservations == 1
WorkerSizes == {1, 2}
MaxAccesses == 2
CloneAllocations == 2
MaxKeys == 3

(* The capacity of the EVM's stack, 1024 in the source, and the number of
   stack_push calls an instance lives through. *)
StackCap == 2

MaxPushes == 4

MaxWord == 2

(* ------------------------- program constants ------------------------- *)

COST_ADDITION == 4
COST_SUBTRACTION == 4
COST_MULTIPLICATION == 12
COST_COMPARISON == 6
COST_SELECT_BRANCH == 3
COST_SELECT_CONTROL == 2
CURRENT_VERSION == 1

(* ------------------------------ Option ------------------------------- *)

None == {}

Some(x) == {x}

Unwrap(o) == CHOOSE x \in o : TRUE

(* `let x = v;` followed by body: v is evaluated once and named. *)
Bind(v, body(_)) == CHOOSE y \in {body(x) : x \in {v}} : TRUE

Max2(a, b) == IF a >= b THEN a ELSE b

saturating_add(a, b) == IF a + b > U32_MAX THEN U32_MAX ELSE a + b

saturating_sub(a, b) == IF a >= b THEN a - b ELSE 0

RECURSIVE is_power_of_two(_)
is_power_of_two(n) ==
    IF n <= 0 THEN FALSE
    ELSE IF n = 1 THEN TRUE
    ELSE IF n % 2 = 1 THEN FALSE
    ELSE is_power_of_two(n \div 2)

(* ----------------------------- NoiseState ---------------------------- *)

NoiseState_new(capacity) == [consumed |-> 0, capacity |-> capacity]

consume_unbounded(noise, amount) ==
    [err |-> "Ok", noise |-> [noise EXCEPT !.consumed = noise.consumed + amount]]

consume(noise, amount) ==
    IF amount = 0 THEN [err |-> "Ok", noise |-> noise]
    ELSE IF noise.consumed + amount > noise.capacity
         THEN [err |-> "NoiseBudgetExceeded", noise |-> noise]
         ELSE [err |-> "Ok", noise |-> [noise EXCEPT !.consumed = noise.consumed + amount]]

merge_free_of_charge(lhs, rhs, cost) ==
    IF lhs.capacity # rhs.capacity
    THEN [err |-> "NoiseBudgetExceeded", noise |-> lhs]
    ELSE consume([consumed |-> Max2(lhs.consumed, rhs.consumed),
                  capacity |-> lhs.capacity], 0)

merge(lhs, rhs, cost) ==
    IF lhs.capacity # rhs.capacity
    THEN [err |-> "NoiseBudgetExceeded", noise |-> lhs]
    ELSE consume([consumed |-> Max2(lhs.consumed, rhs.consumed),
                  capacity |-> lhs.capacity], cost)

(* EncryptedSize: the plaintext it decrypts to and its noise state. *)
EncryptedSize_encrypt(value) == [value |-> value, noise |-> NoiseState_new(NoiseCapacity)]

checked_add(lhs, rhs) ==
    IF lhs.value + rhs.value > U32_MAX
    THEN [err |-> "Overflow", size |-> lhs]
    ELSE LET m == merge(lhs.noise, rhs.noise, COST_ADDITION) IN
         IF m.err # "Ok"
         THEN [err |-> m.err, size |-> lhs]
         ELSE [err |-> "Ok", size |-> [value |-> lhs.value + rhs.value, noise |-> m.noise]]

(* ------------------------ EncryptedMemoryBlock ----------------------- *)

(* A TfheContext is known by its identity: ptr_eq compares the shared
   allocation, so two contexts built separately differ. *)
Contexts == {"pool", "other"}

(* Option::unwrap_or *)
unwrap_or(option, default) == IF option = None THEN default ELSE Unwrap(option)

(* compute_checksum_value: the SHA-256 prefix over the decrypted fields, taken
   to be injective and therefore kept as the tuple of what is hashed.  A
   missing pointer is hashed as 0 and a missing handle as u32::MAX. *)
compute_checksum_value(block) ==
    <<block.address,
      block.size.value,
      block.allocated,
      unwrap_or(block.prev_pointer, 0),
      unwrap_or(block.next_pointer, 0),
      block.version,
      unwrap_or(block.self_handle, U32_MAX),
      unwrap_or(block.prev_handle, U32_MAX),
      unwrap_or(block.next_handle, U32_MAX),
      unwrap_or(block.prev_handle_enc, U32_MAX),
      unwrap_or(block.next_handle_enc, U32_MAX)>>

(* Variant that leaves the stored checksum as it is. *)
refresh_checksum_skipped(block) == block

refresh_checksum(block) == [block EXCEPT !.checksum = compute_checksum_value(block)]

validate_integrity(block) == compute_checksum_value(block) = block.checksum

(* with_layout and from_parts *)
with_layout(context, address, size, handle) ==
    refresh_checksum(
        [context |-> context,
         address |-> address,
         size |-> EncryptedSize_encrypt(size),
         allocated |-> FALSE,
         checksum |-> << >>,
         version |-> CURRENT_VERSION,
         prev_pointer |-> None,
         next_pointer |-> None,
         prev_box |-> FALSE,
         next_box |-> FALSE,
         prev_handle_enc |-> None,
         next_handle_enc |-> None,
         self_handle |-> Some(handle),
         prev_handle |-> None,
         next_handle |-> None])

set_self_handle(block, handle) ==
    refresh_checksum([block EXCEPT !.self_handle = Some(handle)])

set_address(block, address) ==
    refresh_checksum([block EXCEPT !.address = address])

set_size_plain(block, size) ==
    refresh_checksum([block EXCEPT !.size = EncryptedSize_encrypt(size)])

set_prev(block, handle, address) ==
    refresh_checksum([block EXCEPT !.prev_handle = handle,
                                   !.prev_handle_enc = handle,
                                   !.prev_pointer = address])

set_next(block, handle, address) ==
    refresh_checksum([block EXCEPT !.next_handle = handle,
                                   !.next_handle_enc = handle,
                                   !.next_pointer = address])

mark_allocated(block) == refresh_checksum([block EXCEPT !.allocated = TRUE])

mark_free(block) == refresh_checksum([block EXCEPT !.allocated = FALSE])

(* Variant whose trailing block does not inherit the old next link. *)
block_split_block_drops_next(block, leading_size, new_handle, new_address) ==
    IF leading_size = 0 \/ leading_size >= block.size.value
    THEN [err |-> "InvalidOperation", leading |-> block, trailing |-> block]
    ELSE [err |-> "Ok",
          leading |-> refresh_checksum(
                          [block EXCEPT !.size = EncryptedSize_encrypt(leading_size),
                                        !.next_handle = Some(new_handle),
                                        !.next_handle_enc = Some(new_handle),
                                        !.next_pointer = Some(new_address),
                                        !.next_box = TRUE]),
          trailing |-> [set_prev(with_layout(block.context, new_address,
                                             block.size.value - leading_size, new_handle),
                                 block.self_handle, Some(block.address))
                            EXCEPT !.prev_box = TRUE]]

(* EncryptedMemoryBlock::split_block: self keeps the leading part. *)
block_split_block(block, leading_size, new_handle, new_address) ==
    IF leading_size = 0 \/ leading_size >= block.size.value
    THEN [err |-> "InvalidOperation", leading |-> block, trailing |-> block]
    ELSE LET trailing0 == with_layout(block.context, new_address, block.size.value - leading_size, new_handle)
             trailing1 == set_prev(trailing0, block.self_handle, Some(block.address))
             trailing2 == set_next(trailing1, block.next_handle, block.next_pointer)
             trailing3 == refresh_checksum([trailing2 EXCEPT !.prev_box = TRUE, !.next_box = FALSE])
         IN [err |-> "Ok",
             leading |-> refresh_checksum(
                             [block EXCEPT !.size = EncryptedSize_encrypt(leading_size),
                                           !.next_handle = Some(new_handle),
                                           !.next_handle_enc = Some(new_handle),
                                           !.next_pointer = Some(new_address),
                                           !.next_box = TRUE]),
             trailing |-> trailing3]

absorb_right(block, right) ==
    IF block.context # right.context
    THEN [err |-> "ContextMismatch", block |-> block]
    ELSE LET combined == checked_add(block.size, right.size) IN
         IF combined.err # "Ok"
         THEN [err |-> combined.err, block |-> block]
         ELSE [err |-> "Ok", block |-> refresh_checksum([block EXCEPT !.size = combined.size])]

(* Variant that takes any two free blocks of one context, adjacent or not. *)
merge_blocks_anywhere(left, right) ==
    IF left.context # right.context
    THEN [err |-> "ContextMismatch", block |-> left]
    ELSE IF left.allocated \/ right.allocated
    THEN [err |-> "InvalidOperation", block |-> left]
    ELSE Bind(absorb_right(left, right), LAMBDA absorbed :
         IF absorbed.err # "Ok"
         THEN [err |-> absorbed.err, block |-> left]
         ELSE [err |-> "Ok",
               block |-> refresh_checksum(
                             [absorbed.block EXCEPT !.next_handle = right.next_handle,
                                                    !.next_pointer = right.next_pointer,
                                                    !.next_handle_enc = right.next_handle_enc,
                                                    !.next_box = right.next_box])])

(* EncryptedMemoryBlock::merge_blocks: left absorbs right and takes over its
   next link. *)
merge_blocks(left, right) ==
    IF left.context # right.context
    THEN [err |-> "ContextMismatch", block |-> left]
    ELSE IF left.allocated \/ right.allocated
    THEN [err |-> "InvalidOperation", block |-> left]
    ELSE IF left.address + left.size.value # right.address
    THEN [err |-> "InvalidOperation", block |-> left]
    ELSE Bind(absorb_right(left, right), LAMBDA absorbed :
         IF absorbed.err # "Ok"
         THEN [err |-> absorbed.err, block |-> left]
         ELSE [err |-> "Ok",
               block |-> refresh_checksum(
                             [absorbed.block EXCEPT !.next_handle = right.next_handle,
                                                    !.next_pointer = right.next_pointer,
                                                    !.next_handle_enc = right.next_handle_enc,
                                                    !.next_box = right.next_box])])

(* zeroize_sensitive: every field back to zero / none, checksum refreshed. *)
zeroize_sensitive(block) ==
    refresh_checksum([block EXCEPT !.address = 0,
                                   !.size = EncryptedSize_encrypt(0),
                                   !.allocated = FALSE,
                                   !.prev_pointer = None,
                                   !.next_pointer = None,
                                   !.prev_box = FALSE,
                                   !.next_box = FALSE,
                                   !.prev_handle_enc = None,
                                   !.next_handle_enc = None,
                                   !.prev_handle = None,
                                   !.next_handle = None,
                                   !.self_handle = None])

(* corrupt_checksum stores an encryption of 0; no digest is taken to be 0, so
   the stored value is kept as the empty tuple, which no digest equals. *)
corrupt_checksum(block) == [block EXCEPT !.checksum = << >>]

corrupt_prev_handle_cipher(block) == [block EXCEPT !.prev_handle_enc = Some(0)]

corrupt_next_pointer_cipher(block) == [block EXCEPT !.next_pointer = Some(0)]

(* ------------------------------ PoolState ---------------------------- *)

BlockRecord_new(handle, block, start_addr_plain, size_plain, alignment, free) ==
    [handle |-> handle,
     block |-> block,
     size_plain |-> size_plain,
     start_addr_plain |-> start_addr_plain,
     alignment |-> alignment,
     free |-> free,
     prev |-> None,
     next |-> None,
     hits |-> 0]

PoolState_new(base_address) ==
    [blocks |-> << >>,
     free_list |-> << >>,
     vacant_handles |-> << >>,
     access_log |-> << >>,
     base_address |-> base_address,
     used_bytes |-> 0,
     allocations |-> 0,
     deallocations |-> 0,
     next_handle |-> 0,
     timestamp |-> 0]

(* blocks is indexed by the handle value; sequence position = handle + 1. *)
to_index(handle) == handle + 1

(* self.blocks.get(index).and_then(Option::as_ref) *)
get_block(s, handle) ==
    IF to_index(handle) <= Len(s.blocks) THEN s.blocks[to_index(handle)] ELSE None

RECURSIVE ensure_slot(_, _)
ensure_slot(s, handle) ==
    IF to_index(handle) > Len(s.blocks)
    THEN ensure_slot([s EXCEPT !.blocks = Append(s.blocks, None)], handle)
    ELSE s

(* Variant that stops one value early, to show what the `>` of line 439 is for. *)
alloc_handle_stops_early(s) ==
    IF Len(s.vacant_handles) > 0
    THEN [err |-> "Ok",
          handle |-> s.vacant_handles[Len(s.vacant_handles)],
          state |-> [s EXCEPT !.vacant_handles = SubSeq(s.vacant_handles, 1, Len(s.vacant_handles) - 1)]]
    ELSE IF s.next_handle >= HandleMax
    THEN [err |-> "HandleSpaceExhausted", handle |-> 0, state |-> s]
    ELSE [err |-> "Ok",
          handle |-> s.next_handle,
          state |-> [s EXCEPT !.next_handle = s.next_handle + 1]]

alloc_handle(s) ==
    IF Len(s.vacant_handles) > 0
    THEN [err |-> "Ok",
          handle |-> s.vacant_handles[Len(s.vacant_handles)],
          state |-> [s EXCEPT !.vacant_handles = SubSeq(s.vacant_handles, 1, Len(s.vacant_handles) - 1)]]
    ELSE IF s.next_handle > HandleMax
    THEN [err |-> "HandleSpaceExhausted", handle |-> 0, state |-> s]
    ELSE [err |-> "Ok",
          handle |-> s.next_handle,
          state |-> [s EXCEPT !.next_handle = s.next_handle + 1]]

(* Variant that recycles the handle before the one it is given. *)
release_handle_of_neighbour(s, handle) ==
    [s EXCEPT !.vacant_handles = Append(s.vacant_handles, IF handle > 0 THEN handle - 1 ELSE handle)]

release_handle(s, handle) ==
    [s EXCEPT !.vacant_handles = Append(s.vacant_handles, handle)]

insert_block(s, record) ==
    [ensure_slot(s, record.handle) EXCEPT !.blocks[to_index(record.handle)] = Some(record)]

contains(seq, x) == \E i \in 1..Len(seq) : seq[i] = x

(* Variant without the membership test, to show what the test is for. *)
insert_into_free_list_unchecked(s, handle) ==
    [s EXCEPT !.free_list = Append(s.free_list, handle)]

insert_into_free_list(s, handle) ==
    IF contains(s.free_list, handle) THEN s
    ELSE [s EXCEPT !.free_list = Append(s.free_list, handle)]

remove_from_free_list(s, handle) ==
    [s EXCEPT !.free_list = SelectSeq(s.free_list, LAMBDA candidate : candidate # handle)]

(* A box is the presence of a snapshot clone of the neighbour. *)
rebuild_box_links(s) ==
    [s EXCEPT !.blocks =
        [i \in 1..Len(s.blocks) |->
            IF s.blocks[i] = None THEN None
            ELSE LET record == Unwrap(s.blocks[i]) IN
                 Some([record EXCEPT
                    !.block.prev_box = (record.prev # None /\ get_block(s, Unwrap(record.prev)) # None),
                    !.block.next_box = (record.next # None /\ get_block(s, Unwrap(record.next)) # None)])]]

(* Variant that never pads, to show what the padding is for. *)
head_padding_ignored(start, alignment) == 0

(* start & (alignment - 1) for a power-of-two alignment is start mod alignment. *)
head_padding(start, alignment) ==
    LET misalign == start % alignment IN
    IF misalign = 0 THEN 0 ELSE alignment - misalign

fits(record, size, alignment) ==
    record.size_plain >= head_padding(record.start_addr_plain, alignment) + size

RECURSIVE find_fit_from(_, _, _, _)
find_fit_from(s, i, size, alignment) ==
    IF i > Len(s.free_list) THEN None
    ELSE LET slot == s.blocks[to_index(s.free_list[i])] IN
         IF slot = None THEN None
         ELSE IF fits(Unwrap(slot), size, alignment)
              THEN Some([handle |-> s.free_list[i],
                         padding |-> head_padding(Unwrap(slot).start_addr_plain, alignment)])
              ELSE find_fit_from(s, i + 1, size, alignment)

(* Variant that scans the free list from its last entry to its first. *)
find_fit_backwards(s, size, alignment) ==
    find_fit_from([s EXCEPT !.free_list = [k \in 1..Len(@) |-> @[Len(@) + 1 - k]]], 1, size, alignment)

find_fit(s, size, alignment) == find_fit_from(s, 1, size, alignment)

(* PoolState::split_block: `handle` keeps the leading part, a new handle gets the rest. *)
split_block(s, handle, leading_size) ==
    IF get_block(s, handle) = None
    THEN [err |-> "UnknownHandle", handle |-> handle, state |-> s]
    ELSE Bind(Unwrap(get_block(s, handle)), LAMBDA record :
    IF ~record.free
    THEN [err |-> "InvalidOperation", handle |-> handle, state |-> s]
    ELSE IF leading_size = 0 \/ leading_size >= record.size_plain
    THEN [err |-> "InvalidSize", handle |-> handle, state |-> s]
    ELSE Bind(alloc_handle(s), LAMBDA issued :
    IF issued.err # "Ok"
    THEN [err |-> issued.err, handle |-> handle, state |-> s]
    ELSE LET new_handle == issued.handle
             trailing_address == record.start_addr_plain + leading_size
             trailing_size == record.size_plain - leading_size
             old_next == record.next
         IN
    Bind(block_split_block(record.block, leading_size, new_handle, trailing_address), LAMBDA parts :
    IF parts.err # "Ok"
    THEN [err |-> "Crypto", handle |-> handle, state |-> issued.state]
    ELSE Bind([issued.state EXCEPT !.blocks[to_index(handle)] =
                  Some([record EXCEPT
                          !.size_plain = leading_size,
                          !.next = Some(new_handle),
                          !.block = set_next(parts.leading, Some(new_handle),
                                             Some(trailing_address))])],
              LAMBDA s1 :
         LET next_addr == IF old_next = None \/ get_block(s1, Unwrap(old_next)) = None
                          THEN None
                          ELSE Some(Unwrap(get_block(s1, Unwrap(old_next))).start_addr_plain)
             trailing_record ==
                 [handle |-> new_handle,
                  block |-> set_next(set_prev(parts.trailing, Some(handle),
                                              Some(record.start_addr_plain)),
                                     old_next, next_addr),
                  size_plain |-> trailing_size,
                  start_addr_plain |-> trailing_address,
                  alignment |-> record.alignment,
                  free |-> TRUE,
                  prev |-> Some(handle),
                  next |-> old_next,
                  hits |-> 0]
         IN
         Bind(insert_block(s1, trailing_record), LAMBDA s2 :
         Bind(IF old_next = None \/ get_block(s2, Unwrap(old_next)) = None
              THEN s2
              ELSE [s2 EXCEPT !.blocks[to_index(Unwrap(old_next))] =
                      Some([Unwrap(get_block(s2, Unwrap(old_next))) EXCEPT
                              !.prev = Some(new_handle),
                              !.block = set_prev(@, Some(new_handle), Some(trailing_address))])],
              LAMBDA s3 :
         Bind(insert_into_free_list(s3, new_handle), LAMBDA s4 :
         [err |-> "Ok", handle |-> new_handle, state |-> rebuild_box_links(s4)])))))))

(* Variant that reports success and merges nothing. *)
merge_adjacent_skipped(s, left_handle, right_handle) ==
    [err |-> "Ok", handle |-> left_handle, state |-> s]

(* PoolState::merge_adjacent: the right record is taken out of its slot first. *)
merge_adjacent(s, left_handle, right_handle) ==
    IF s.blocks[to_index(right_handle)] = None
    THEN [err |-> "UnknownHandle", handle |-> left_handle, state |-> s]
    ELSE Bind(Unwrap(s.blocks[to_index(right_handle)]), LAMBDA right_record :
         Bind([s EXCEPT !.blocks[to_index(right_handle)] = None], LAMBDA taken :
    IF ~(get_block(taken, left_handle) # None /\ Unwrap(get_block(taken, left_handle)).free)
       \/ ~right_record.free
    THEN [err |-> "InvalidOperation", handle |-> left_handle, state |-> s]
    ELSE Bind(Unwrap(get_block(taken, left_handle)), LAMBDA left_record :
    IF left_record.start_addr_plain + left_record.size_plain # right_record.start_addr_plain
    THEN [err |-> "InvalidOperation", handle |-> left_handle, state |-> s]
    ELSE Bind(absorb_right(left_record.block, right_record.block), LAMBDA absorbed :
    IF absorbed.err # "Ok"
    THEN [err |-> "Crypto", handle |-> left_handle, state |-> taken]
    ELSE Bind([left_record EXCEPT
                  !.size_plain = saturating_add(left_record.size_plain, right_record.size_plain),
                  !.next = right_record.next,
                  !.block = set_next(absorbed.block, right_record.next,
                                     right_record.block.next_pointer)],
              LAMBDA merged :
         Bind([taken EXCEPT !.blocks[to_index(left_handle)] = Some(merged)], LAMBDA s1 :
         Bind(IF merged.next = None \/ s1.blocks[to_index(Unwrap(merged.next))] = None
              THEN s1
              ELSE [s1 EXCEPT !.blocks[to_index(Unwrap(merged.next))] =
                      Some([Unwrap(s1.blocks[to_index(Unwrap(merged.next))]) EXCEPT
                              !.prev = Some(left_handle),
                              !.block = set_prev(@, Some(left_handle),
                                                 Some(merged.start_addr_plain))])],
              LAMBDA s2 :
         Bind(release_handle(remove_from_free_list(s2, right_handle), right_handle), LAMBDA s3 :
         [err |-> "Ok", handle |-> left_handle, state |-> rebuild_box_links(s3)]))))))))

(* ------------------- Keys, SlabClass, Arena, CryptMalloc ------------- *)

(* `+` on FheUint64, and on u64 in a release build. *)
wrapping_add(a, b) == (a + b) % U64_MODULUS

(* Keys::build_enc_indices_u32: the table 0, 1, .., count - 1. *)
build_enc_indices_u32(count) == [idx \in 1..count |-> idx - 1]

(* Variant whose table starts one slot late. *)
build_enc_offsets_u64_from_one(count, block_size) ==
    [idx \in 1..count |-> (idx * block_size) % U64_MODULUS]

(* Keys::build_enc_offsets_u64: the table 0, block_size, 2 * block_size, .. *)
build_enc_offsets_u64(count, block_size) ==
    [idx \in 1..count |-> ((idx - 1) * block_size) % U64_MODULUS]

(* SlabClass::new: every bitmap cell starts as enc_false. *)
SlabClass_new(block_size, num_blocks, base_offset, enc_indices_u32, enc_offsets_u64) ==
    [block_size |-> block_size,
     num_blocks |-> num_blocks,
     bitmap |-> [i \in 1..num_blocks |-> FALSE],
     base_offset |-> base_offset,
     enc_indices_u32 |-> enc_indices_u32,
     enc_offsets_u64 |-> enc_offsets_u64]

(* The selection pass of allocate_masked from slot i on; acc carries
   selected, selected_index and selected_ptrval. *)
RECURSIVE allocate_masked_select(_, _, _, _)
allocate_masked_select(slab, requested_mask, i, acc) ==
    IF i > slab.num_blocks THEN acc
    ELSE Bind((~slab.bitmap[i]) /\ (~acc.selected) /\ requested_mask, LAMBDA should_sel :
         Bind([selected_ptrval |-> IF should_sel
                                   THEN wrapping_add(slab.base_offset, slab.enc_offsets_u64[i])
                                   ELSE acc.selected_ptrval,
               selected_index |-> IF should_sel THEN slab.enc_indices_u32[i]
                                  ELSE acc.selected_index,
               selected |-> acc.selected \/ should_sel],
              LAMBDA next : allocate_masked_select(slab, requested_mask, i + 1, next)))

(* Variant whose writeback pass forgets the selected mask. *)
allocate_masked_marks_unmasked(slab, requested_mask) ==
    Bind(allocate_masked_select(slab, requested_mask, 1,
            [selected |-> FALSE, selected_index |-> 0, selected_ptrval |-> 0]),
         LAMBDA sel :
    Bind(sel.selected /\ requested_mask, LAMBDA selected_mask :
    [slab |-> [slab EXCEPT !.bitmap =
                  [j \in 1..slab.num_blocks |->
                      IF slab.enc_indices_u32[j] = sel.selected_index
                      THEN TRUE ELSE slab.bitmap[j]]],
     value |-> sel.selected_ptrval,
     is_some |-> selected_mask]))

(* SlabClass::allocate_masked: selection pass, then writeback pass over every slot. *)
allocate_masked(slab, requested_mask) ==
    Bind(allocate_masked_select(slab, requested_mask, 1,
            [selected |-> FALSE, selected_index |-> 0, selected_ptrval |-> 0]),
         LAMBDA sel :
    Bind(sel.selected /\ requested_mask, LAMBDA selected_mask :
    [slab |-> [slab EXCEPT !.bitmap =
                  [j \in 1..slab.num_blocks |->
                      IF slab.enc_indices_u32[j] = sel.selected_index /\ selected_mask
                      THEN TRUE ELSE slab.bitmap[j]]],
     value |-> sel.selected_ptrval,
     is_some |-> selected_mask]))

(* Variant that matches a pointer anywhere inside a slot. *)
SlabClass_free_by_range(slab, ptr) ==
    [slab EXCEPT !.bitmap =
        [i \in 1..slab.num_blocks |->
            IF /\ wrapping_add(slab.base_offset, slab.enc_offsets_u64[i]) <= ptr
               /\ ptr < wrapping_add(slab.base_offset, slab.enc_offsets_u64[i]) + slab.block_size
            THEN FALSE ELSE slab.bitmap[i]]]

(* SlabClass::free: one scan, equality of the slot address with the pointer. *)
SlabClass_free(slab, ptr) ==
    [slab EXCEPT !.bitmap =
        [i \in 1..slab.num_blocks |->
            IF wrapping_add(slab.base_offset, slab.enc_offsets_u64[i]) = ptr
            THEN FALSE ELSE slab.bitmap[i]]]

(* Arena::new: the cursor starts at start. *)
Arena_new(start, end) == [start |-> start, end |-> end, cursor |-> start]

(* Variant without the wrap test. *)
Arena_allocate_unguarded(arena, size) ==
    Bind(wrapping_add(arena.cursor, size), LAMBDA new_cursor :
    Bind(new_cursor <= arena.end, LAMBDA ok :
    [arena |-> [arena EXCEPT !.cursor = IF ok THEN new_cursor ELSE arena.cursor],
     value |-> IF ok THEN arena.cursor ELSE 0,
     is_some |-> ok]))

(* Arena::allocate *)
Arena_allocate(arena, size) ==
    Bind(wrapping_add(arena.cursor, size), LAMBDA new_cursor :
    Bind((new_cursor <= arena.end) /\ ~(new_cursor < arena.cursor), LAMBDA ok :
    [arena |-> [arena EXCEPT !.cursor = IF ok THEN new_cursor ELSE arena.cursor],
     value |-> IF ok THEN arena.cursor ELSE 0,
     is_some |-> ok]))

(* Arena::reset *)
Arena_reset(arena) == [arena EXCEPT !.cursor = arena.start]

(* EncryptedOption::combine_with *)
combine_with(self, other) ==
    [value |-> IF other.is_some THEN other.value ELSE self.value,
     is_some |-> self.is_some \/ other.is_some]

(* The encrypted tier bounds enc_16 .. enc_256 of CryptMalloc::new. *)
size_bounds == <<16, 32, 64, 128, 256>>

(* The tier layout of CryptMalloc::new: each tier has half the slots of the
   tier before it. *)
slab_configs ==
    <<[block_size |-> 16, num_blocks |-> NumBlocks],
      [block_size |-> 32, num_blocks |-> Max2(1, NumBlocks \div 2)],
      [block_size |-> 64, num_blocks |-> Max2(1, NumBlocks \div 4)],
      [block_size |-> 128, num_blocks |-> Max2(1, NumBlocks \div 8)],
      [block_size |-> 256, num_blocks |-> Max2(1, NumBlocks \div 16)]>>

(* running_offset of CryptMalloc::new before tier k (k = 6: after the last tier). *)
RECURSIVE running_offset(_)
running_offset(k) ==
    IF k = 1 THEN 0
    ELSE wrapping_add(running_offset(k - 1),
                      slab_configs[k - 1].block_size * slab_configs[k - 1].num_blocks)

(* CryptMalloc::new: the tiers laid out contiguously, then the arena. *)
CryptMalloc_new(arena_size) ==
    [slabs |-> [k \in 1..Len(slab_configs) |->
                   SlabClass_new(slab_configs[k].block_size,
                                 slab_configs[k].num_blocks,
                                 running_offset(k),
                                 build_enc_indices_u32(slab_configs[k].num_blocks),
                                 build_enc_offsets_u64(slab_configs[k].num_blocks,
                                                       slab_configs[k].block_size))],
     arena |-> Arena_new(running_offset(Len(slab_configs) + 1),
                         wrapping_add(running_offset(Len(slab_configs) + 1), arena_size))]

(* Variant that asks every tier. *)
tier_masks_of_every_tier(size_ct) == [k \in 1..5 |-> size_ct >= 0]

(* Variant with the cumulative fit flags as masks. *)
tier_masks_cumulative(size_ct) == [k \in 1..5 |-> size_ct <= size_bounds[k]]

(* The one-hot tier masks of CryptMalloc::allocate for the coerced size. *)
tier_masks(size_ct) ==
    Bind([k \in 1..5 |-> size_ct <= size_bounds[k]], LAMBDA le :
    <<le[1],
      le[2] /\ ~le[1],
      le[3] /\ ~(le[1] \/ le[2]),
      le[4] /\ ~(le[1] \/ le[2] \/ le[3]),
      le[5] /\ ~(le[1] \/ le[2] \/ le[3] \/ le[4])>>)

(* Left fold of combine_with over results[k..]. *)
RECURSIVE combine_all(_, _, _)
combine_all(result, results, k) ==
    IF k > Len(results) THEN result
    ELSE Bind(combine_with(result, results[k]), LAMBDA next :
         combine_all(next, results, k + 1))

(* CryptMalloc::allocate: every tier and the arena are driven on every call. *)
CryptMalloc_allocate(m, size) ==
    Bind(IF size = 0 \/ size < size_bounds[1] THEN size_bounds[1] ELSE size, LAMBDA size_ct :
    Bind(tier_masks(size_ct), LAMBDA masks :
    Bind([k \in 1..Len(m.slabs) |-> allocate_masked(m.slabs[k], masks[k])],
         LAMBDA slab_results :
    Bind(size_ct > size_bounds[5], LAMBDA use_arena :
    Bind(Arena_allocate(m.arena, IF use_arena THEN size_ct ELSE 0), LAMBDA arena_raw :
    Bind(combine_all([value |-> 0, is_some |-> FALSE],
                     [k \in 1..Len(m.slabs) |->
                         [value |-> slab_results[k].value,
                          is_some |-> slab_results[k].is_some]],
                     1),
         LAMBDA folded :
    Bind(combine_with(folded, [value |-> arena_raw.value,
                               is_some |-> arena_raw.is_some /\ use_arena]),
         LAMBDA result :
    [malloc |-> [slabs |-> [k \in 1..Len(m.slabs) |-> slab_results[k].slab],
                 arena |-> arena_raw.arena],
     value |-> result.value,
     is_some |-> result.is_some])))))))

(* Variant that clears the whole tier the pointer lies in. *)
CryptMalloc_free_whole_tier(m, ptr) ==
    [m EXCEPT !.slabs =
        [k \in 1..Len(m.slabs) |->
            IF SlabClass_free(m.slabs[k], ptr) = m.slabs[k] THEN m.slabs[k]
            ELSE [m.slabs[k] EXCEPT !.bitmap = [i \in 1..m.slabs[k].num_blocks |-> FALSE]]]]

(* CryptMalloc::free: the pointer goes to every tier. *)
CryptMalloc_free(m, ptr) ==
    [m EXCEPT !.slabs = [k \in 1..Len(m.slabs) |-> SlabClass_free(m.slabs[k], ptr)]]

(* -------------------------- VirtualMemoryPool ------------------------ *)

(* ----------------------- typed ciphertext layer ---------------------- *)

(* The contexts ciphertexts are made under: the two of the pool layer, both
   of the small profile, and one of the large profile. *)
OpContexts == Contexts \cup {"secure"}

(* TfheContext::noise_capacity *)
noise_capacity(context) == IF context = "secure" THEN SecureNoiseCapacity ELSE NoiseCapacity

(* EncryptedUint8 / EncryptedBool: the plaintext the cipher decrypts to, the
   context it was made under and its noise state. *)
EncryptedUint8_encrypt(value, context) ==
    [value |-> value, context |-> context, noise |-> NoiseState_new(noise_capacity(context))]

EncryptedBool_encrypt(value, context) ==
    [value |-> value, context |-> context, noise |-> NoiseState_new(noise_capacity(context))]

from_parts(cipher, context, noise) == [value |-> cipher, context |-> context, noise |-> noise]

OpOk(out) == [err |-> "Ok", out |-> Some(out)]

OpErr(err) == [err |-> err, out |-> None]

ensure_same_context(lhs, rhs) == lhs.context = rhs.context

Modulus == U8_MAX + 1

Add(l, r) == (l + r) % Modulus
Sub(l, r) == (l + Modulus - r) % Modulus
Mul(l, r) == (l * r) % Modulus

(* The closure op of the source is total on ciphertexts; the caller passes
   what it yields on the two operands, and binary_op uses it only on the
   path where the source calls the closure. *)
binary_op(lhs, rhs, cost, op) ==
    IF ~ensure_same_context(lhs, rhs) THEN OpErr("ContextMismatch")
    ELSE LET m == merge(lhs.noise, rhs.noise, cost) IN
         IF m.err # "Ok" THEN OpErr(m.err)
         ELSE OpOk(from_parts(op, lhs.context, m.noise))

EncryptedUint8_wrapping_add(lhs, rhs) == binary_op(lhs, rhs, COST_ADDITION, Add(lhs.value, rhs.value))

EncryptedUint8_wrapping_sub(lhs, rhs) == binary_op(lhs, rhs, COST_SUBTRACTION, Sub(lhs.value, rhs.value))

EncryptedUint8_wrapping_mul(lhs, rhs) == binary_op(lhs, rhs, COST_MULTIPLICATION, Mul(lhs.value, rhs.value))

(* The checked and saturating operations decrypt both operands, each under
   its own context, and look for the overflow first. *)
EncryptedUint8_checked_add(lhs, rhs) ==
    IF lhs.value + rhs.value > U8_MAX THEN OpErr("Overflow")
    ELSE EncryptedUint8_wrapping_add(lhs, rhs)

saturated(lhs) == OpOk(EncryptedUint8_encrypt(U8_MAX, lhs.context))

EncryptedUint8_saturating_add(lhs, rhs) ==
    IF lhs.value + rhs.value > U8_MAX THEN saturated(lhs)
    ELSE EncryptedUint8_wrapping_add(lhs, rhs)

EncryptedUint8_checked_sub(lhs, rhs) ==
    IF lhs.value < rhs.value THEN OpErr("Overflow")
    ELSE EncryptedUint8_wrapping_sub(lhs, rhs)

EncryptedUint8_checked_mul(lhs, rhs) ==
    IF lhs.value * rhs.value > U8_MAX THEN OpErr("Overflow")
    ELSE EncryptedUint8_wrapping_mul(lhs, rhs)

EncryptedUint8_saturating_mul(lhs, rhs) ==
    IF lhs.value * rhs.value > U8_MAX THEN saturated(lhs)
    ELSE EncryptedUint8_wrapping_mul(lhs, rhs)

(* batch_*: map the wrapping operation over the pairs and collect; the first
   failing pair decides the error. *)
batch(results) ==
    LET failed == {i \in DOMAIN results : results[i].err # "Ok"}
    IN  IF failed # {}
        THEN OpErr(results[CHOOSE i \in failed : \A j \in failed : i <= j].err)
        ELSE OpOk([i \in DOMAIN results |-> Unwrap(results[i].out)])

batch_add(inputs) ==
    batch([i \in DOMAIN inputs |-> EncryptedUint8_wrapping_add(inputs[i][1], inputs[i][2])])

batch_sub(inputs) ==
    batch([i \in DOMAIN inputs |-> EncryptedUint8_wrapping_sub(inputs[i][1], inputs[i][2])])

batch_mul(inputs) ==
    batch([i \in DOMAIN inputs |-> EncryptedUint8_wrapping_mul(inputs[i][1], inputs[i][2])])

(* EncryptedBool::binary_op and its three users, and not. *)
And(l, r) == l /\ r
Or(l, r) == l \/ r
Xor(l, r) == l # r

EncryptedBool_and(lhs, rhs) == binary_op(lhs, rhs, COST_ADDITION, And(lhs.value, rhs.value))

EncryptedBool_or(lhs, rhs) == binary_op(lhs, rhs, COST_ADDITION, Or(lhs.value, rhs.value))

EncryptedBool_xor(lhs, rhs) == binary_op(lhs, rhs, COST_ADDITION, Xor(lhs.value, rhs.value))

EncryptedBool_not(flag) == from_parts(~flag.value, flag.context, flag.noise)

(* The comparisons of comparison_impls!. *)
Eq(l, r) == l = r
Lt(l, r) == l < r
Le(l, r) == l <= r
Gt(l, r) == l > r
Ge(l, r) == l >= r

eq_cipher(lhs, rhs) == binary_op(lhs, rhs, COST_COMPARISON, Eq(lhs.value, rhs.value))

ne_cipher(lhs, rhs) ==
    LET eq == eq_cipher(lhs, rhs) IN
    IF eq.err # "Ok" THEN eq ELSE OpOk(EncryptedBool_not(Unwrap(eq.out)))

lt_cipher(lhs, rhs) == binary_op(lhs, rhs, COST_COMPARISON, Lt(lhs.value, rhs.value))

le_cipher(lhs, rhs) == binary_op(lhs, rhs, COST_COMPARISON, Le(lhs.value, rhs.value))

gt_cipher(lhs, rhs) == binary_op(lhs, rhs, COST_COMPARISON, Gt(lhs.value, rhs.value))

ge_cipher(lhs, rhs) == binary_op(lhs, rhs, COST_COMPARISON, Ge(lhs.value, rhs.value))

merge_condition_noise(condition, lhs, rhs) ==
    LET branch_noise == merge(lhs, rhs, COST_SELECT_BRANCH) IN
    IF branch_noise.err # "Ok" THEN branch_noise
    ELSE merge(condition.noise, branch_noise.noise, COST_SELECT_CONTROL)

select_integer(condition, when_true, when_false) ==
    IF condition.context # when_true.context \/ condition.context # when_false.context
    THEN OpErr("ContextMismatch")
    ELSE LET noise == merge_condition_noise(condition, when_true.noise, when_false.noise) IN
         IF noise.err # "Ok" THEN OpErr(noise.err)
         ELSE OpOk(from_parts(IF condition.value THEN when_true.value ELSE when_false.value,
                              when_true.context, noise.noise))

EncryptedBool_decrypt(condition) == condition.value

(* The options are sets of at most one ciphertext, and so is the option a
   successful call returns.  The two one-sided arms decrypt the condition and
   hand out a clone of the operand that is present. *)
select_option(condition, when_true, when_false) ==
    CASE when_true # None /\ when_false # None ->
           IF condition.context # Unwrap(when_true).context
              \/ condition.context # Unwrap(when_false).context
           THEN OpErr("ContextMismatch")
           ELSE Bind(select_integer(condition, Unwrap(when_true), Unwrap(when_false)), LAMBDA r :
                    IF r.err = "Ok" THEN OpOk(r.out) ELSE OpErr(r.err))
      [] when_true # None /\ when_false = None ->
           IF condition.context # Unwrap(when_true).context
           THEN OpErr("ContextMismatch")
           ELSE IF EncryptedBool_decrypt(condition) THEN OpOk(when_true) ELSE OpOk(None)
      [] when_true = None /\ when_false # None ->
           IF condition.context # Unwrap(when_false).context
           THEN OpErr("ContextMismatch")
           ELSE IF EncryptedBool_decrypt(condition) THEN OpOk(when_false) ELSE OpOk(None)
      [] OTHER -> OpOk(None)

min_cipher(lhs, rhs) ==
    LET selector == le_cipher(lhs, rhs) IN
    IF selector.err # "Ok" THEN selector ELSE select_integer(Unwrap(selector.out), lhs, rhs)

max_cipher(lhs, rhs) ==
    LET selector == ge_cipher(lhs, rhs) IN
    IF selector.err # "Ok" THEN selector ELSE select_integer(Unwrap(selector.out), lhs, rhs)

(* ------------------------- context envelope -------------------------- *)

(* A byte and its complement, the flip of the tamper test (^= 0xFF). *)
BYTE_MAX == 255

flip(byte) == BYTE_MAX - byte

(* SecurityLevel as bincode writes it: the variant index. *)
SecurityLevels == {0, 1, 2}

(* bincode, fixed-width little-endian: a u32 is four bytes. *)
u32_to_le_bytes(value) ==
    <<value % 256, (value \div 256) % 256, (value \div 65536) % 256, (value \div 16777216) % 256>>

(* Every value of 256 and more lies outside the enum and is kept as 256. *)
u32_from_le_bytes(bytes) ==
    IF bytes[2] = 0 /\ bytes[3] = 0 /\ bytes[4] = 0 THEN bytes[1] ELSE BYTE_MAX + 1

(* KeyPayload: config, descriptor (security_level, enable_compression),
   client_key, server_key.  The three opaque parts are one byte each. *)
KeyPayload_serialize(payload) ==
    <<payload.config>> \o u32_to_le_bytes(payload.security_level)
        \o <<IF payload.enable_compression THEN 1 ELSE 0>>
        \o <<payload.client_key, payload.server_key>>

PayloadLen == 1 + 4 + 1 + 2

(* bincode::deserialize of a KeyPayload: a variant index outside the enum and
   a bool byte other than 0 and 1 are errors. *)
KeyPayload_deserialize(bytes) ==
    IF Len(bytes) # PayloadLen THEN None
    ELSE LET level == u32_from_le_bytes(SubSeq(bytes, 2, 5)) IN
         IF level \notin SecurityLevels \/ bytes[6] \notin {0, 1} THEN None
         ELSE Some([config |-> bytes[1],
                    security_level |-> level,
                    enable_compression |-> bytes[6] = 1,
                    client_key |-> bytes[7],
                    server_key |-> bytes[8]])

(* Sha256::digest of the payload bytes, taken to be collision-free: an
   injective image of the bytes, as long as the payload. *)
Sha256_digest(bytes) == [i \in DOMAIN bytes |-> (bytes[i] + 1) % (BYTE_MAX + 1)]

export_keys(context) ==
    LET payload_bytes == KeyPayload_serialize(context) IN
    Sha256_digest(payload_bytes) \o payload_bytes

from_serialized_unverified(bytes) ==
    LET payload == KeyPayload_deserialize(SubSeq(bytes, PayloadLen + 1, Len(bytes))) IN
    IF payload = None THEN [err |-> "Serialization", context |-> None]
    ELSE [err |-> "Ok", context |-> payload]

from_serialized(bytes) ==
    LET checksum == SubSeq(bytes, 1, PayloadLen)
        payload == KeyPayload_deserialize(SubSeq(bytes, PayloadLen + 1, Len(bytes)))
    IN  IF payload = None THEN [err |-> "Serialization", context |-> None]
        ELSE IF checksum # Sha256_digest(KeyPayload_serialize(Unwrap(payload)))
             THEN [err |-> "IntegrityViolation", context |-> None]
             ELSE [err |-> "Ok", context |-> payload]

VARIABLES
    plain,      \* PlainMetadata: total_bytes, base_address, min_alignment
    metadata,   \* PoolMetadata: the decrypted values of the encrypted mirror
    digest,     \* SHA-256 over the plaintext triple, recorded by build
    state,      \* PoolState behind Arc<RwLock<..>>
    calls_ok,   \* no allocate_block / release_block call has returned an error so far
    lock,       \* the RwLock around state: the thread holding the write guard, if any
    pc,         \* where each worker thread stands in its loop
    local,      \* each worker thread's locals
    observed,   \* what the observer thread's latest stats / block_snapshot returned
    malloc,     \* a CryptMalloc: its five SlabClass tiers and its Arena
    held,       \* an EncryptedMemoryBlock in the hands of a caller
    regs,       \* the typed ciphertexts a caller computes with: lhs, rhs, flag
    wire,       \* a context's keys, their exported envelope, and what importing it gave
    owned,      \* the allocations of malloc a caller holds, and whether one was handed out twice
    keys,       \* GLOBAL_SERVER_KEY, the server key installed on the thread, the keys the last call computed under
    evm,        \* an EVM's stack and stack_len
    shadow      \* the values the EVM's stack should hold, bottom first

vars ==
    <<plain, metadata, digest, state, calls_ok, lock, pc, local, observed, malloc, held, regs,
      wire, owned, keys, evm, shadow>>

side == <<owned, keys, evm, shadow>>

NoOwned == [allocations |-> {}, doubled |-> FALSE]

NoKeys == [global |-> None, installed |-> None, ran |-> {}]

NoEvm == [stack |-> << >>, stack_len |-> 0]

(* The variables of the later sections, at rest. *)
SideAtRest == owned = NoOwned /\ keys = NoKeys /\ evm = NoEvm /\ shadow = << >>

KeyMaterial(config, security_level, enable_compression, client_key, server_key) ==
    [config |-> config, security_level |-> security_level,
     enable_compression |-> enable_compression,
     client_key |-> client_key, server_key |-> server_key]

NoWire ==
    [context |-> KeyMaterial(0, 0, FALSE, 0, 0),
     bytes |-> export_keys(KeyMaterial(0, 0, FALSE, 0, 0)),
     imported |-> "none"]

NoRegs ==
    [lhs |-> EncryptedUint8_encrypt(0, "pool"),
     rhs |-> EncryptedUint8_encrypt(0, "pool"),
     flag |-> EncryptedBool_encrypt(FALSE, "pool")]

threads == <<lock, pc, local, observed>>

(* SHA-256 is taken to be injective on the triples it is applied to. *)
Sha256(total_bytes, base_address, min_alignment) == <<total_bytes, base_address, min_alignment>>

verify_integrity(p, m, d) ==
    IF m.capacity # p.total_bytes \/ m.base_address # p.base_address
    THEN "IntegrityViolation"
    ELSE IF m.min_alignment # p.min_alignment
    THEN "IntegrityViolation"
    ELSE IF Sha256(p.total_bytes, p.base_address, p.min_alignment) # d
    THEN "IntegrityViolation"
    ELSE "Ok"

(* VirtualMemoryPoolBuilder::build, after its range checks. *)
build(total_bytes, base_address, min_alignment) ==
    Bind(alloc_handle(PoolState_new(base_address)), LAMBDA issued :
    Bind(set_next(set_prev(with_layout("pool", base_address, total_bytes, issued.handle),
                           None, None), None, None),
         LAMBDA initial_block :
    Bind(BlockRecord_new(issued.handle, initial_block, base_address,
                         total_bytes, min_alignment, TRUE),
         LAMBDA record :
    Bind(insert_block(issued.state, record), LAMBDA s1 :
    Bind(insert_into_free_list(s1, issued.handle), LAMBDA s2 :
    rebuild_box_links(s2))))))

(* allocate_block, lines 179-188: first fit, then the head-padding split. *)
allocate_place(s, size, req_alignment) ==
    Bind(find_fit(s, size, req_alignment), LAMBDA fit :
    IF fit = None
    THEN [err |-> "OutOfMemory", handle |-> 0, state |-> s]
    ELSE IF Unwrap(fit).padding > 0
    THEN IF Unwrap(fit).padding > U32_MAX
         THEN [err |-> "InvalidOperation", handle |-> 0, state |-> s]
         ELSE split_block(s, Unwrap(fit).handle, Unwrap(fit).padding)
    ELSE [err |-> "Ok", handle |-> Unwrap(fit).handle, state |-> s])

(* allocate_block, lines 190-196: cut the tail off when the target is larger. *)
allocate_trim(s, target_handle, size) ==
    IF s.blocks[to_index(target_handle)] # None
       /\ Unwrap(s.blocks[to_index(target_handle)]).size_plain > size
    THEN Bind(split_block(s, target_handle, size), LAMBDA cut :
         [err |-> cut.err, handle |-> target_handle, state |-> cut.state])
    ELSE [err |-> "Ok", handle |-> target_handle, state |-> s]

(* allocate_block, lines 198-216: the commit. *)
allocate_commit(s, target_handle, req_alignment) ==
    IF s.blocks[to_index(target_handle)] = None
    THEN [err |-> "UnknownHandle", handle |-> target_handle, state |-> s]
    ELSE Bind(Unwrap(s.blocks[to_index(target_handle)]), LAMBDA record :
    IF ~record.free
    THEN [err |-> "InvalidOperation", handle |-> target_handle, state |-> s]
    ELSE Bind([s EXCEPT !.blocks[to_index(target_handle)] =
                  Some([record EXCEPT !.free = FALSE,
                                      !.alignment = req_alignment,
                                      !.hits = 0,
                                      !.block = mark_allocated(record.block)])],
              LAMBDA s1 :
         Bind(remove_from_free_list(s1, target_handle), LAMBDA s2 :
         Bind([s2 EXCEPT !.used_bytes = saturating_add(s2.used_bytes, record.size_plain),
                         !.allocations = s2.allocations + 1],
              LAMBDA s3 :
         [err |-> "Ok", handle |-> target_handle, state |-> rebuild_box_links(s3)]))))

(* Variant that tests the alignment as requested, before it is raised. *)
allocate_locked_before_raising(p, s, size, alignment) ==
    IF alignment = 0 \/ ~is_power_of_two(alignment)
    THEN [err |-> "InvalidAlignment", handle |-> 0, state |-> s]
    ELSE Bind(allocate_place(s, size, Max2(alignment, p.min_alignment)), LAMBDA placed :
    IF placed.err # "Ok" THEN placed
    ELSE Bind(allocate_trim(placed.state, placed.handle, size), LAMBDA trimmed :
    IF trimmed.err # "Ok" THEN trimmed
    ELSE Bind(trimmed.state, LAMBDA s2 :
         allocate_commit(s2, trimmed.handle, Max2(alignment, p.min_alignment)))))

(* The part of allocate_block that runs under the write guard. *)
allocate_locked(p, s, size, alignment) ==
    LET req_alignment == Max2(alignment, p.min_alignment) IN
    IF req_alignment = 0 \/ ~is_power_of_two(req_alignment)
    THEN [err |-> "InvalidAlignment", handle |-> 0, state |-> s]
    ELSE Bind(allocate_place(s, size, req_alignment), LAMBDA placed :
    IF placed.err # "Ok" THEN placed
    ELSE Bind(allocate_trim(placed.state, placed.handle, size), LAMBDA trimmed :
    IF trimmed.err # "Ok" THEN trimmed
    ELSE Bind(trimmed.state, LAMBDA s2 :
         allocate_commit(s2, trimmed.handle, req_alignment))))

allocate_block(p, m, d, s, size, alignment) ==
    IF size = 0
    THEN [err |-> "InvalidSize", handle |-> 0, state |-> s]
    ELSE IF verify_integrity(p, m, d) # "Ok"
    THEN [err |-> "IntegrityViolation", handle |-> 0, state |-> s]
    ELSE allocate_locked(p, s, size, alignment)

(* Variant that leaves used_bytes alone, to show what line 235 is for. *)
release_mark_without_accounting(s, handle) ==
    IF s.blocks[to_index(handle)] = None
    THEN [err |-> "UnknownHandle", handle |-> handle, state |-> s]
    ELSE LET record == Unwrap(s.blocks[to_index(handle)]) IN
    IF record.free
    THEN [err |-> "DoubleFree", handle |-> handle, state |-> s]
    ELSE [err |-> "Ok",
          handle |-> handle,
          state |-> [s EXCEPT !.blocks[to_index(handle)] =
                        Some([record EXCEPT !.free = TRUE, !.block = mark_free(record.block)]),
                              !.deallocations = s.deallocations + 1]]

(* release_block, lines 222-236: flag the record free and count the release.
   guard.blocks[..] is an indexing expression: a handle beyond the vector
   panics, which is the outcome IndexOutOfBounds. *)
release_mark(s, handle) ==
    IF to_index(handle) > Len(s.blocks)
    THEN [err |-> "IndexOutOfBounds", handle |-> handle, state |-> s]
    ELSE IF s.blocks[to_index(handle)] = None
    THEN [err |-> "UnknownHandle", handle |-> handle, state |-> s]
    ELSE Bind(Unwrap(s.blocks[to_index(handle)]), LAMBDA record :
    IF record.free
    THEN [err |-> "DoubleFree", handle |-> handle, state |-> s]
    ELSE Bind([s EXCEPT !.blocks[to_index(handle)] =
                  Some([record EXCEPT !.free = TRUE, !.block = mark_free(record.block)])],
              LAMBDA s1 :
         [err |-> "Ok",
          handle |-> handle,
          state |-> [s1 EXCEPT !.used_bytes = saturating_sub(s1.used_bytes, record.size_plain),
                               !.deallocations = s1.deallocations + 1]]))

(* release_block, lines 240-251: coalesce with a free previous neighbour. *)
release_coalesce_prev(s, handle) ==
    LET prev == Unwrap(s.blocks[to_index(handle)]).prev IN
    IF prev # None
       /\ s.blocks[to_index(Unwrap(prev))] # None
       /\ Unwrap(s.blocks[to_index(Unwrap(prev))]).free
    THEN merge_adjacent(s, Unwrap(prev), handle)
    ELSE [err |-> "Ok", handle |-> handle, state |-> s]

(* release_block, lines 253-264: coalesce with a free next neighbour. *)
release_coalesce_next(s, current_handle) ==
    LET next == IF s.blocks[to_index(current_handle)] = None THEN None
                ELSE Unwrap(s.blocks[to_index(current_handle)]).next
    IN
    IF next # None
       /\ s.blocks[to_index(Unwrap(next))] # None
       /\ Unwrap(s.blocks[to_index(Unwrap(next))]).free
    THEN Bind(merge_adjacent(s, current_handle, Unwrap(next)), LAMBDA merged :
         [err |-> merged.err, handle |-> current_handle, state |-> merged.state])
    ELSE [err |-> "Ok", handle |-> current_handle, state |-> s]

(* release_block, lines 266-267. *)
release_finish(s, current_handle) ==
    Bind(insert_into_free_list(s, current_handle), LAMBDA s1 :
    [err |-> "Ok", handle |-> current_handle, state |-> rebuild_box_links(s1)])

(* The part of release_block that runs under the write guard. *)
release_locked(s, handle) ==
    Bind(release_mark(s, handle), LAMBDA marked :
    IF marked.err # "Ok" THEN marked
    ELSE Bind(marked.state, LAMBDA s1 :
         Bind(release_coalesce_prev(s1, handle), LAMBDA left :
    IF left.err # "Ok" THEN left
    ELSE Bind(left.state, LAMBDA s2 :
         Bind(release_coalesce_next(s2, left.handle), LAMBDA right :
    IF right.err # "Ok" THEN right
    ELSE Bind(right.state, LAMBDA s3 :
         release_finish(s3, right.handle)))))))

release_block(p, m, d, s, handle) ==
    IF verify_integrity(p, m, d) # "Ok"
    THEN [err |-> "IntegrityViolation", handle |-> handle, state |-> s]
    ELSE release_locked(s, handle)

record_access(s, handle) ==
    Bind([s EXCEPT !.timestamp = s.timestamp + 1], LAMBDA s1 :
    IF to_index(handle) > Len(s1.blocks)
    THEN [err |-> "IndexOutOfBounds", handle |-> handle, state |-> s1]
    ELSE IF s1.blocks[to_index(handle)] = None
    THEN [err |-> "UnknownHandle", handle |-> handle, state |-> s1]
    ELSE Bind(Unwrap(s1.blocks[to_index(handle)]), LAMBDA record :
         Bind([s1 EXCEPT !.blocks[to_index(handle)] = Some([record EXCEPT !.hits = record.hits + 1]),
                         !.access_log = Append(s1.access_log,
                                               [address |-> record.block.address,
                                                timestamp |-> s1.timestamp])],
              LAMBDA s2 :
         [err |-> "Ok", handle |-> handle, state |-> rebuild_box_links(s2)])))

(* VirtualMemoryPool::rebuild_box_links, the public wrapper: write lock, then
   PoolState::rebuild_box_links. *)
VirtualMemoryPool_rebuild_box_links(s) ==
    [err |-> "Ok", state |-> rebuild_box_links(s)]

(* ------------------------------- actions ----------------------------- *)

Sizes == {0, 1, 2}

Alignments == {0, 3, 4}

Workers == 1..NumWorkers

NoLocals == [round |-> 0, size |-> 0, handle |-> 0, err |-> "Ok"]

NoObservation == [count |-> 0, stats |-> None, views |-> None]

Init ==
    /\ \E base_address \in BaseAddresses, min_alignment \in MinAlignments :
        /\ plain = [total_bytes |-> TotalBytes, base_address |-> base_address,
                    min_alignment |-> min_alignment]
        /\ metadata = [capacity |-> TotalBytes, base_address |-> base_address,
                       min_alignment |-> min_alignment]
        /\ digest = Sha256(TotalBytes, base_address, min_alignment)
        /\ state = build(TotalBytes, base_address, min_alignment)
    /\ calls_ok = TRUE
    /\ SideAtRest
    /\ lock = None
    /\ pc = [t \in Workers |-> "done"]
    /\ local = [t \in Workers |-> NoLocals]
    /\ observed = NoObservation
    /\ malloc = CryptMalloc_new(ArenaSize)
    /\ held = with_layout("pool", 0, 0, 0)
    /\ regs = NoRegs
    /\ wire = NoWire

AllocateBlock ==
    /\ state.allocations < MaxAllocations
    /\ \E size \in Sizes, alignment \in Alignments :
        \E r \in {allocate_block(plain, metadata, digest, state, size, alignment)} :
            /\ state' = r.state
            /\ calls_ok' = (calls_ok /\ r.err = "Ok")
    /\ UNCHANGED <<side, wire, regs, held, malloc, plain, metadata, digest, threads>>

(* A caller holds only handles the pool has handed out: slots of the block array. *)
ReleaseBlock ==
    /\ \E handle \in 0..(Len(state.blocks) - 1) :
        \E r \in {release_block(plain, metadata, digest, state, handle)} :
            /\ state' = r.state
            /\ calls_ok' = (calls_ok /\ r.err = "Ok")
    /\ UNCHANGED <<side, wire, regs, held, malloc, plain, metadata, digest, threads>>

Next == AllocateBlock \/ ReleaseBlock

Spec == Init /\ [][Next]_vars

(* ------------------------- derived observations --------------------- *)

LiveHandles(s) == {h \in 0..(Len(s.blocks) - 1) : s.blocks[to_index(h)] # None}

Block(s, h) == Unwrap(s.blocks[to_index(h)])

BlockEnd(s, h) == Block(s, h).start_addr_plain + Block(s, h).size_plain

RECURSIVE SumSizes(_, _)
SumSizes(s, handles) ==
    IF handles = {} THEN 0
    ELSE LET h == CHOOSE x \in handles : TRUE IN
         Block(s, h).size_plain + SumSizes(s, handles \ {h})

AllocatedHandles(s) == {h \in LiveHandles(s) : ~Block(s, h).free}

FreeHandles(s) == {h \in LiveHandles(s) : Block(s, h).free}

(* The live blocks, ordered by address, cover [base, base + capacity) exactly. *)
Tiles(s, p) ==
    /\ \E h \in LiveHandles(s) : Block(s, h).start_addr_plain = p.base_address
    /\ \A h \in LiveHandles(s) :
        \/ BlockEnd(s, h) = p.base_address + p.total_bytes
        \/ \E g \in LiveHandles(s) : Block(s, g).start_addr_plain = BlockEnd(s, h)
    /\ \A h, g \in LiveHandles(s) :
        h # g => (BlockEnd(s, h) <= Block(s, g).start_addr_plain
                  \/ BlockEnd(s, g) <= Block(s, h).start_addr_plain)
    /\ \A h \in LiveHandles(s) :
        /\ Block(s, h).start_addr_plain >= p.base_address
        /\ BlockEnd(s, h) <= p.base_address + p.total_bytes
    /\ SumSizes(s, LiveHandles(s)) = p.total_bytes

Occurrences(seq, x) == Cardinality({i \in 1..Len(seq) : seq[i] = x})

FreeListExact(s) ==
    /\ \A i \in 1..Len(s.free_list) : s.free_list[i] \in FreeHandles(s)
    /\ \A h \in FreeHandles(s) : Occurrences(s.free_list, h) = 1

LinkedInAddressOrder(s) ==
    /\ Cardinality({h \in LiveHandles(s) : Block(s, h).prev = None}) = 1
    /\ Cardinality({h \in LiveHandles(s) : Block(s, h).next = None}) = 1
    /\ \A h \in LiveHandles(s) :
        Block(s, h).next # None =>
            LET n == Unwrap(Block(s, h).next) IN
            /\ n \in LiveHandles(s)
            /\ Block(s, n).prev = Some(h)
            /\ BlockEnd(s, h) = Block(s, n).start_addr_plain
    /\ \A h \in LiveHandles(s) :
        Block(s, h).prev # None =>
            /\ Unwrap(Block(s, h).prev) \in LiveHandles(s)
            /\ Block(s, Unwrap(Block(s, h).prev)).next = Some(h)

Handles(s) == 0..(Len(s.blocks) - 1)

ValidRequests(p) ==
    {rq \in [size : Sizes, alignment : Alignments] :
        /\ rq.size # 0
        /\ is_power_of_two(Max2(rq.alignment, p.min_alignment))}

(* ------------------------ readers of the pool ------------------------ *)

stats(p, m, d, s) ==
    IF verify_integrity(p, m, d) # "Ok"
    THEN [err |-> "IntegrityViolation", used |-> 0, free |-> 0, allocations |-> 0,
          deallocations |-> 0, access_events |-> 0]
    ELSE [err |-> "Ok",
          used |-> s.used_bytes,
          free |-> saturating_sub(p.total_bytes, s.used_bytes),
          allocations |-> s.allocations,
          deallocations |-> s.deallocations,
          access_events |-> Len(s.access_log)]

BlockView(record) ==
    [handle |-> record.handle,
     address |-> record.block.address,
     size |-> record.block.size.value,
     allocated |-> ~record.free,
     alignment |-> record.alignment,
     hits |-> record.hits]

block_snapshot(s) ==
    LET live == SelectSeq(s.blocks, LAMBDA entry : entry # None) IN
    [i \in 1..Len(live) |-> BlockView(Unwrap(live[i]))]

(* The views of one snapshot cover [base, base + capacity) exactly. *)
ViewsTile(views, p) ==
    /\ \E i \in 1..Len(views) : views[i].address = p.base_address
    /\ \A i \in 1..Len(views) :
        /\ views[i].address >= p.base_address
        /\ views[i].address + views[i].size <= p.base_address + p.total_bytes
        /\ \/ views[i].address + views[i].size = p.base_address + p.total_bytes
           \/ \E j \in 1..Len(views) : views[j].address = views[i].address + views[i].size
    /\ \A i, j \in 1..Len(views) :
        i # j => (views[i].address + views[i].size <= views[j].address
                  \/ views[j].address + views[j].size <= views[i].address)

(* ---------------------- threads sharing one pool --------------------- *)

(* RwLock: a write guard needs the lock free; a read guard needs no writer.
   Readers take their guard, read and drop it in one step. *)
write_available(l) == l = None

read_available(l) == l = None

InitThreads ==
    /\ \E base_address \in BaseAddresses, min_alignment \in MinAlignments :
        /\ plain = [total_bytes |-> TotalBytes, base_address |-> base_address,
                    min_alignment |-> min_alignment]
        /\ metadata = [capacity |-> TotalBytes, base_address |-> base_address,
                       min_alignment |-> min_alignment]
        /\ digest = Sha256(TotalBytes, base_address, min_alignment)
        /\ state = build(TotalBytes, base_address, min_alignment)
    /\ calls_ok = TRUE
    /\ SideAtRest
    /\ lock = None
    /\ pc = [t \in Workers |-> "allocate"]
    /\ local = [t \in Workers |-> NoLocals]
    /\ observed = NoObservation
    /\ malloc = CryptMalloc_new(ArenaSize)
    /\ held = with_layout("pool", 0, 0, 0)
    /\ regs = NoRegs
    /\ wire = NoWire

(* A call of thread t returns an error: the guard is dropped and the closure
   returns through `?`. *)
Fail(t, s, err) ==
    /\ state' = s
    /\ lock' = None
    /\ pc' = [pc EXCEPT ![t] = "failed"]
    /\ local' = [local EXCEPT ![t].err = err]
    /\ calls_ok' = FALSE

(* allocate_block(size, min_alignment): take the write guard, find the fit and
   split off the head padding. *)
WorkerAllocate(t) ==
    /\ pc[t] = "allocate"
    /\ write_available(lock)
    /\ \E size \in WorkerSizes :
        \E req_alignment \in {Max2(plain.min_alignment, plain.min_alignment)} :
        \E placed \in {allocate_place(state, size, req_alignment)} :
        IF verify_integrity(plain, metadata, digest) # "Ok"
        THEN Fail(t, state, "IntegrityViolation")
        ELSE IF req_alignment = 0 \/ ~is_power_of_two(req_alignment)
        THEN Fail(t, state, "InvalidAlignment")
        ELSE IF placed.err # "Ok"
        THEN Fail(t, placed.state, placed.err)
        ELSE /\ state' = placed.state
             /\ lock' = Some(t)
             /\ pc' = [pc EXCEPT ![t] = "allocate_trim"]
             /\ local' = [local EXCEPT ![t].size = size, ![t].handle = placed.handle]
             /\ UNCHANGED calls_ok
    /\ UNCHANGED <<side, wire, regs, held, malloc, plain, metadata, digest, observed>>

WorkerAllocateTrim(t) ==
    /\ pc[t] = "allocate_trim"
    /\ lock = Some(t)
    /\ \E trimmed \in {allocate_trim(state, local[t].handle, local[t].size)} :
        IF trimmed.err # "Ok"
        THEN Fail(t, trimmed.state, trimmed.err)
        ELSE /\ state' = trimmed.state
             /\ pc' = [pc EXCEPT ![t] = "allocate_commit"]
             /\ UNCHANGED <<lock, local, calls_ok>>
    /\ UNCHANGED <<side, wire, regs, held, malloc, plain, metadata, digest, observed>>

WorkerAllocateCommit(t) ==
    /\ pc[t] = "allocate_commit"
    /\ lock = Some(t)
    /\ \E committed \in {allocate_commit(state, local[t].handle, plain.min_alignment)} :
        IF committed.err # "Ok"
        THEN Fail(t, committed.state, committed.err)
        ELSE /\ state' = committed.state
             /\ lock' = None
             /\ pc' = [pc EXCEPT ![t] = "record_access"]
             /\ UNCHANGED <<local, calls_ok>>
    /\ UNCHANGED <<side, wire, regs, held, malloc, plain, metadata, digest, observed>>

WorkerRecordAccess(t) ==
    /\ pc[t] = "record_access"
    /\ write_available(lock)
    /\ \E r \in {record_access(state, local[t].handle)} :
        IF r.err # "Ok"
        THEN Fail(t, r.state, r.err)
        ELSE /\ state' = r.state
             /\ pc' = [pc EXCEPT ![t] = "release"]
             /\ UNCHANGED <<lock, local, calls_ok>>
    /\ UNCHANGED <<side, wire, regs, held, malloc, plain, metadata, digest, observed>>

(* release_block(handle): take the write guard, flag the block free. *)
WorkerRelease(t) ==
    /\ pc[t] = "release"
    /\ write_available(lock)
    /\ \E marked \in {release_mark(state, local[t].handle)} :
        IF verify_integrity(plain, metadata, digest) # "Ok"
        THEN Fail(t, state, "IntegrityViolation")
        ELSE IF marked.err # "Ok"
        THEN Fail(t, marked.state, marked.err)
        ELSE /\ state' = marked.state
             /\ lock' = Some(t)
             /\ pc' = [pc EXCEPT ![t] = "release_prev"]
             /\ UNCHANGED <<local, calls_ok>>
    /\ UNCHANGED <<side, wire, regs, held, malloc, plain, metadata, digest, observed>>

WorkerReleasePrev(t) ==
    /\ pc[t] = "release_prev"
    /\ lock = Some(t)
    /\ \E left \in {release_coalesce_prev(state, local[t].handle)} :
        IF left.err # "Ok"
        THEN Fail(t, left.state, left.err)
        ELSE /\ state' = left.state
             /\ pc' = [pc EXCEPT ![t] = "release_next"]
             /\ local' = [local EXCEPT ![t].handle = left.handle]
             /\ UNCHANGED <<lock, calls_ok>>
    /\ UNCHANGED <<side, wire, regs, held, malloc, plain, metadata, digest, observed>>

WorkerReleaseNext(t) ==
    /\ pc[t] = "release_next"
    /\ lock = Some(t)
    /\ \E right \in {release_coalesce_next(state, local[t].handle)} :
        IF right.err # "Ok"
        THEN Fail(t, right.state, right.err)
        ELSE /\ state' = right.state
             /\ pc' = [pc EXCEPT ![t] = "release_finish"]
             /\ UNCHANGED <<lock, local, calls_ok>>
    /\ UNCHANGED <<side, wire, regs, held, malloc, plain, metadata, digest, observed>>

(* The end of release_block; the closure's loop goes round or returns Ok. *)
WorkerReleaseFinish(t) ==
    /\ pc[t] = "release_finish"
    /\ lock = Some(t)
    /\ state' = release_finish(state, local[t].handle).state
    /\ lock' = None
    /\ local' = [local EXCEPT ![t].round = local[t].round + 1]
    /\ pc' = [pc EXCEPT ![t] = IF local[t].round + 1 < Rounds THEN "allocate" ELSE "done"]
    /\ UNCHANGED <<side, wire, regs, held, malloc, plain, metadata, digest, calls_ok, observed>>

ObserverStats ==
    /\ observed.count < MaxObservations
    /\ read_available(lock)
    /\ \E r \in {stats(plain, metadata, digest, state)} :
        observed' = [observed EXCEPT !.count = observed.count + 1,
                                     !.stats = Some([used |-> r.used,
                                                     allocated_then |->
                                                         SumSizes(state, AllocatedHandles(state))])]
    /\ UNCHANGED <<side, wire, regs, held, malloc, plain, metadata, digest, state, calls_ok, lock, pc, local>>

ObserverSnapshot ==
    /\ observed.count < MaxObservations
    /\ read_available(lock)
    /\ observed' = [observed EXCEPT !.count = observed.count + 1,
                                    !.views = Some(block_snapshot(state))]
    /\ UNCHANGED <<side, wire, regs, held, malloc, plain, metadata, digest, state, calls_ok, lock, pc, local>>

NextThreads ==
    \/ \E t \in Workers :
        \/ WorkerAllocate(t)
        \/ WorkerAllocateTrim(t)
        \/ WorkerAllocateCommit(t)
        \/ WorkerRecordAccess(t)
        \/ WorkerRelease(t)
        \/ WorkerReleasePrev(t)
        \/ WorkerReleaseNext(t)
        \/ WorkerReleaseFinish(t)
    \/ ObserverStats
    \/ ObserverSnapshot

SpecThreads == InitThreads /\ [][NextThreads]_vars

(* ------------------------------- claims ------------------------------ *)

(* C1: after any sequence of allocate_block and release_block calls the live
   blocks, ordered by address, tile [base_address, base_address + total_bytes)
   with no gap and no overlap, and their sizes sum to the capacity. *)
C1_BlocksTilePool == Tiles(state, plain)

(* C2: used_bytes equals the sum of the sizes of the blocks marked allocated. *)
C2_UsedBytesIsAllocatedSum == state.used_bytes = SumSizes(state, AllocatedHandles(state))

C2_Witness ==
    /\ state.allocations >= 2
    /\ state.deallocations >= 1
    /\ state.used_bytes > 0
    /\ ~calls_ok

(* C3: a release_block(h) that succeeds, followed at once by a second
   release_block(h), makes the second call fail with DoubleFree and leave
   the pool state unchanged, whether or not the first call coalesced h. *)
C3_SecondReleaseIsDoubleFree ==
    \A h \in Handles(state) :
        LET first == release_block(plain, metadata, digest, state, h) IN
        first.err = "Ok" =>
            LET second == release_block(plain, metadata, digest, first.state, h) IN
            /\ second.err = "DoubleFree"
            /\ second.state = first.state

(* C4: an allocate_block call that returns an error leaves the pool state
   as it was before the call. *)
C4_FailedAllocateLeavesState ==
    \A size \in Sizes, alignment \in Alignments :
        LET r == allocate_block(plain, metadata, digest, state, size, alignment) IN
        r.err # "Ok" => r.state = state

(* C5: a successful allocate_block(size, alignment) returns an allocated
   block of exactly `size` bytes at a multiple of max(alignment,
   min_alignment); if the chosen free block started misaligned, the bytes in
   front stay behind as a free head-padding block that ends where the
   allocation starts. *)
C5_AllocateIsAlignedAndPadded ==
    \A rq \in ValidRequests(plain) :
        LET r == allocate_block(plain, metadata, digest, state, rq.size, rq.alignment)
            req_alignment == Max2(rq.alignment, plain.min_alignment)
        IN
        r.err = "Ok" =>
            LET chosen == Unwrap(find_fit(state, rq.size, req_alignment)).handle
                origin == Block(state, chosen).start_addr_plain
            IN
            /\ r.handle \in LiveHandles(r.state)
            /\ ~Block(r.state, r.handle).free
            /\ Block(r.state, r.handle).block.allocated
            /\ Block(r.state, r.handle).size_plain = rq.size
            /\ Block(r.state, r.handle).block.size.value = rq.size
            /\ Block(r.state, r.handle).start_addr_plain % req_alignment = 0
            /\ Block(r.state, r.handle).block.address = Block(r.state, r.handle).start_addr_plain
            /\ origin % req_alignment # 0 =>
                /\ chosen # r.handle
                /\ chosen \in FreeHandles(r.state)
                /\ contains(r.state.free_list, chosen)
                /\ Block(r.state, chosen).start_addr_plain = origin
                /\ Block(r.state, chosen).size_plain
                       = Block(r.state, r.handle).start_addr_plain - origin
                /\ Block(r.state, chosen).next = Some(r.handle)

C5_Witness ==
    \E rq \in ValidRequests(plain) :
        LET r == allocate_block(plain, metadata, digest, state, rq.size, rq.alignment)
            fit == find_fit(state, rq.size, Max2(rq.alignment, plain.min_alignment))
        IN
        /\ state.deallocations >= 1
        /\ r.err = "Ok"
        /\ Unwrap(fit).padding >= 2
        /\ Block(r.state, Unwrap(fit).handle).size_plain = Unwrap(fit).padding

(* C8: after successful calls only, free_list holds exactly the handles of
   the blocks whose free flag is set, each once. *)
C8_FreeListIsFreeBlocks == calls_ok => FreeListExact(state)

C8_Witness ==
    /\ calls_ok
    /\ Len(state.free_list) >= 2
    /\ Len(state.vacant_handles) >= 1
    /\ state.used_bytes > 0

(* C9: prev/next form one doubly-linked list in address order. *)
C9_LinksFormAddressOrderedList == LinkedInAddressOrder(state)

(* C10: for a valid request allocate_block fails with OutOfMemory exactly when
   no block on the free list has size >= head padding + size, and then the
   pool state is unchanged. *)
C10_OutOfMemoryIffNoFit ==
    \A rq \in ValidRequests(plain) :
        LET r == allocate_block(plain, metadata, digest, state, rq.size, rq.alignment)
            req_alignment == Max2(rq.alignment, plain.min_alignment)
            some_fit == \E i \in 1..Len(state.free_list) :
                            /\ state.free_list[i] \in LiveHandles(state)
                            /\ fits(Block(state, state.free_list[i]), rq.size, req_alignment)
        IN
        /\ (r.err = "OutOfMemory") <=> ~some_fit
        /\ r.err = "OutOfMemory" => r.state = state

(* C6: worker threads that each run allocate_block, record_access and
   release_block in a loop on a pool large enough for all their live blocks
   never see a call fail, and once all have returned used_bytes is 0 and the
   counters equal the numbers of calls made. *)
C6_WorkersAllSucceed ==
    /\ \A t \in Workers : pc[t] # "failed"
    /\ (\A t \in Workers : pc[t] = "done" /\ local[t].round = Rounds) =>
        /\ state.used_bytes = 0
        /\ state.allocations = NumWorkers * Rounds
        /\ state.deallocations = NumWorkers * Rounds
        /\ Len(state.access_log) = NumWorkers * Rounds

(* C7: what stats and block_snapshot return is never a half-applied
   allocate or release: the views of a snapshot tile the pool, and the used
   bytes of a stats call are the allocated bytes at the time of the call. *)
C7_ObserversSeeWholeOperations ==
    /\ observed.views # None => ViewsTile(Unwrap(observed.views), plain)
    /\ observed.stats # None =>
        Unwrap(observed.stats).used = Unwrap(observed.stats).allocated_then

(* C11: once an allocate_block call has failed with HandleSpaceExhausted,
   a release_block that succeeds puts a handle on vacant_handles, so that
   the next alloc_handle succeeds. *)
C11_ReleaseRecyclesAHandle ==
    \A size \in Sizes, alignment \in Alignments :
        LET failed == allocate_block(plain, metadata, digest, state, size, alignment) IN
        failed.err = "HandleSpaceExhausted" =>
            \A h \in Handles(failed.state) :
                LET released == release_block(plain, metadata, digest, failed.state, h) IN
                released.err = "Ok" =>
                    /\ Len(released.state.vacant_handles) > Len(failed.state.vacant_handles)
                    /\ alloc_handle(released.state).err = "Ok"

(* C12: alloc_handle returns the most recently recycled handle when there is
   one; otherwise next_handle, which it increments, for every value up to
   and including the largest handle value; it fails with
   HandleSpaceExhausted only when nothing is recycled and next_handle has
   passed the largest value. The handle it returns names no live block. *)
C12_HandleIssuing ==
    LET r == alloc_handle(state)
        recycled == state.vacant_handles
    IN
    /\ Len(recycled) > 0 =>
        /\ r.err = "Ok"
        /\ r.handle = recycled[Len(recycled)]
        /\ r.state = [state EXCEPT !.vacant_handles = SubSeq(recycled, 1, Len(recycled) - 1)]
    /\ (Len(recycled) = 0 /\ state.next_handle <= HandleMax) =>
        /\ r.err = "Ok"
        /\ r.handle = state.next_handle
        /\ r.state = [state EXCEPT !.next_handle = state.next_handle + 1]
    /\ (r.err = "HandleSpaceExhausted") <=> (Len(recycled) = 0 /\ state.next_handle > HandleMax)
    /\ r.err \in {"Ok", "HandleSpaceExhausted"}
    /\ r.err = "Ok" => r.handle \notin LiveHandles(state)
    /\ \A i, j \in 1..Len(recycled) : i # j => recycled[i] # recycled[j]

C12_Witness ==
    /\ Len(state.vacant_handles) >= 2
    /\ state.next_handle > HandleMax
    /\ LiveHandles(state) # {}

(* The block of state s that covers address a. *)
Covering(s, a) ==
    CHOOSE g \in LiveHandles(s) : Block(s, g).start_addr_plain <= a /\ a < BlockEnd(s, g)

(* The free blocks of s that can hold the request, head padding included. *)
Fitting(s, size, req_alignment) ==
    {f \in FreeHandles(s) : fits(Block(s, f), size, req_alignment)}

(* C13 as stated: allocate_block places best-fit, i.e. the free block it
   allocates from has the smallest size among the free blocks that can hold
   the request. *)
C13_BestFit ==
    \A rq \in ValidRequests(plain) :
        LET r == allocate_block(plain, metadata, digest, state, rq.size, rq.alignment)
            req_alignment == Max2(rq.alignment, plain.min_alignment)
        IN
        r.err = "Ok" =>
            LET origin == Covering(state, Block(r.state, r.handle).start_addr_plain) IN
            \A f \in Fitting(state, rq.size, req_alignment) :
                Block(state, origin).size_plain <= Block(state, f).size_plain

(* C13 amended: allocate_block places first-fit, i.e. whenever it succeeds
   the block it allocates from is the first entry of the free list that can
   hold the request, whatever the sizes of the later entries. *)
C13_FirstFitInListOrder ==
    \A rq \in ValidRequests(plain) :
        \A r \in {allocate_block(plain, metadata, digest, state, rq.size, rq.alignment)} :
        r.err = "Ok" =>
            \A req_alignment \in {Max2(rq.alignment, plain.min_alignment)} :
            \A origin \in {Covering(state, Block(r.state, r.handle).start_addr_plain)} :
            \E i \in 1..Len(state.free_list) :
                /\ state.free_list[i] = origin
                /\ fits(Block(state, origin), rq.size, req_alignment)
                /\ \A j \in 1..(i - 1) :
                    /\ state.free_list[j] \in LiveHandles(state)
                    /\ ~fits(Block(state, state.free_list[j]), rq.size, req_alignment)

C13_Witness ==
    \E rq \in ValidRequests(plain) :
        LET r == allocate_block(plain, metadata, digest, state, rq.size, rq.alignment)
            req_alignment == Max2(rq.alignment, plain.min_alignment)
        IN
        /\ r.err = "Ok"
        /\ \E f \in Fitting(state, rq.size, req_alignment) :
            Block(state, f).size_plain
                < Block(state, Covering(state, Block(r.state, r.handle).start_addr_plain)).size_plain

(* Encrypted metadata that differs from the plain metadata in its capacity,
   its base address or its minimum alignment. *)
TamperedMetadata ==
    {[metadata EXCEPT !.capacity = metadata.capacity + 1],
     [metadata EXCEPT !.base_address = metadata.base_address + 1],
     [metadata EXCEPT !.min_alignment = 2 * metadata.min_alignment]}

(* C14: when the encrypted metadata no longer matches the plain metadata and
   the digest, each of allocate_block, release_block, record_access and
   rebuild_box_links fails with IntegrityViolation and leaves the pool state
   unchanged. *)
C14_TamperedPoolRejectsMutation ==
    \A m \in TamperedMetadata :
        /\ verify_integrity(plain, m, digest) = "IntegrityViolation"
        /\ \A size \in Sizes \ {0}, alignment \in Alignments :
            LET r == allocate_block(plain, m, digest, state, size, alignment) IN
            r.err = "IntegrityViolation" /\ r.state = state
        /\ \A h \in Handles(state) :
            LET r == release_block(plain, m, digest, state, h) IN
            r.err = "IntegrityViolation" /\ r.state = state
        /\ \A h \in LiveHandles(state) :
            LET r == record_access(state, h) IN
            r.err = "IntegrityViolation" /\ r.state = state
        /\ LET r == VirtualMemoryPool_rebuild_box_links(state) IN
           r.err = "IntegrityViolation" /\ r.state = state

(* ---------------------- the tiered allocator at work ------------------ *)

(* Arena sizes handed to CryptMalloc::new; with the second one the u64 sum
   arena_start_plain + arena_size wraps (a release build; a debug build
   panics instead and constructs nothing). *)
ArenaSizes == {ArenaSize, U64_MODULUS - 1}

AllocSizes == {0, 1, 16, 17, 32, 33, 64, 65, 128, 129, 256, 257, 300, U64_MODULUS - 1}

ArenaRequests == {0, 150, U64_MODULUS - 1}

(* The address of slot i (counted from 1) of a tier. *)
SlotAddress(slab, i) == slab.base_offset + (i - 1) * slab.block_size

SlotAddresses(m) ==
    UNION {{SlotAddress(m.slabs[k], i) : i \in 1..m.slabs[k].num_blocks} :
              k \in 1..Len(m.slabs)}

(* Pointers a caller may pass to free: slot addresses, their neighbours,
   arena addresses. *)
FreePointers(m) ==
    SlotAddresses(m) \cup {a + 1 : a \in SlotAddresses(m)}
        \cup {m.arena.start, wrapping_add(m.arena.start, 257)}

InitMalloc ==
    /\ plain = [total_bytes |-> TotalBytes, base_address |-> 1, min_alignment |-> 1]
    /\ metadata = [capacity |-> TotalBytes, base_address |-> 1, min_alignment |-> 1]
    /\ digest = Sha256(TotalBytes, 1, 1)
    /\ state = build(TotalBytes, 1, 1)
    /\ calls_ok = TRUE
    /\ SideAtRest
    /\ lock = None
    /\ pc = [t \in Workers |-> "done"]
    /\ local = [t \in Workers |-> NoLocals]
    /\ observed = NoObservation
    /\ \E arena_size \in ArenaSizes : malloc = CryptMalloc_new(arena_size)
    /\ held = with_layout("pool", 0, 0, 0)
    /\ regs = NoRegs
    /\ wire = NoWire

pool == <<plain, metadata, digest, state, calls_ok, threads>>

MallocAllocate ==
    /\ \E size \in AllocSizes :
        \E r \in {CryptMalloc_allocate(malloc, size)} : malloc' = r.malloc
    /\ UNCHANGED <<side, wire, regs, held, pool>>

MallocFree ==
    /\ \E ptr \in FreePointers(malloc) : malloc' = CryptMalloc_free(malloc, ptr)
    /\ UNCHANGED <<side, wire, regs, held, pool>>

ArenaAllocate ==
    /\ \E size \in ArenaRequests :
        \E r \in {Arena_allocate(malloc.arena, size)} :
            malloc' = [malloc EXCEPT !.arena = r.arena]
    /\ UNCHANGED <<side, wire, regs, held, pool>>

ArenaReset ==
    /\ malloc' = [malloc EXCEPT !.arena = Arena_reset(malloc.arena)]
    /\ UNCHANGED <<side, wire, regs, held, pool>>

NextMalloc == MallocAllocate \/ MallocFree \/ ArenaAllocate \/ ArenaReset

SpecMalloc == InitMalloc /\ [][NextMalloc]_vars

FreeSlots(slab) == {i \in 1..slab.num_blocks : ~slab.bitmap[i]}

(* C15: allocate_masked(M) raises exactly one bitmap cell from free to
   allocated when it returns is_some = true and changes no cell when it
   returns is_some = false; is_some is true exactly when M is true and the
   tier has a free slot. *)
C15_AllocateMaskedRaisesOneCell ==
    \A k \in 1..Len(malloc.slabs), M \in BOOLEAN :
        LET slab == malloc.slabs[k]
            r == allocate_masked(slab, M)
            raised == {i \in 1..slab.num_blocks : ~slab.bitmap[i] /\ r.slab.bitmap[i]}
            changed == {i \in 1..slab.num_blocks : slab.bitmap[i] # r.slab.bitmap[i]}
        IN
        /\ DOMAIN r.slab.bitmap = 1..slab.num_blocks
        /\ r.is_some => (Cardinality(raised) = 1 /\ changed = raised)
        /\ ~r.is_some => r.slab = slab
        /\ r.is_some <=> (M /\ FreeSlots(slab) # {})

C15_Witness ==
    \E k, l \in 1..Len(malloc.slabs) :
        /\ malloc.slabs[k].num_blocks >= 2
        /\ malloc.slabs[k].bitmap[1] /\ ~malloc.slabs[k].bitmap[2]
        /\ FreeSlots(malloc.slabs[l]) = {}

(* C16: SlabClass::free(P) clears slot i exactly when P = base_offset +
   i * block_size and leaves every other cell as it was; a pointer that is
   no slot address of the tier leaves the tier unchanged; freeing twice is
   freeing once.  CryptMalloc::free does this in every tier and leaves the
   arena alone. *)
C16_FreeClearsMatchingCell ==
    \A ptr \in FreePointers(malloc) \cup {0, U64_MODULUS - 1} :
        /\ \A k \in 1..Len(malloc.slabs) :
            LET slab == malloc.slabs[k]
                after == SlabClass_free(slab, ptr)
            IN
            /\ DOMAIN after.bitmap = 1..slab.num_blocks
            /\ \A i \in 1..slab.num_blocks :
                after.bitmap[i] = IF ptr = SlotAddress(slab, i) THEN FALSE ELSE slab.bitmap[i]
            /\ (\A i \in 1..slab.num_blocks : ptr # SlotAddress(slab, i)) => after = slab
            /\ SlabClass_free(after, ptr) = after
            /\ CryptMalloc_free(malloc, ptr).slabs[k] = after
        /\ CryptMalloc_free(malloc, ptr).arena = malloc.arena

C16_Witness ==
    \E k, l \in 1..Len(malloc.slabs) :
        /\ malloc.slabs[k].num_blocks >= 2
        /\ malloc.slabs[k].bitmap[1] /\ malloc.slabs[k].bitmap[2]
        /\ malloc.slabs[l].base_offset > 0 /\ malloc.slabs[l].bitmap[1]

RouteSizes == 0..300 \cup {U64_MODULUS - 1}

(* The smallest tier whose block size is at least s, for 1 <= s <= 256. *)
Tier(s) ==
    CHOOSE k \in 1..5 : size_bounds[k] >= s /\ \A j \in 1..(k - 1) : size_bounds[j] < s

(* The tiers whose bitmap the call with outcome r has changed. *)
Accepting(m, r) ==
    {k \in 1..Len(m.slabs) : r.malloc.slabs[k] # m.slabs[k]}

(* The arena can take s more bytes. *)
HasRoom(arena, s) == arena.cursor + s <= arena.end /\ arena.cursor + s < U64_MODULUS

ArenaAccepts(m, s, r) ==
    /\ r.is_some
    /\ r.value = m.arena.cursor
    /\ r.malloc.arena = [m.arena EXCEPT !.cursor = m.arena.cursor + s]

(* C17 as stated: for 1 <= s <= 256 exactly one tier accepts, the smallest
   one whose block size is at least s; for s > 256 every tier declines and
   the arena accepts if it has room; s = 0 behaves exactly as s = 16. *)
C17_ExactlyOneTierAccepts ==
    \A s \in RouteSizes :
        \A r \in {CryptMalloc_allocate(malloc, s)} :
            /\ (1 <= s /\ s <= 256) => Accepting(malloc, r) = {Tier(s)}
            /\ s > 256 =>
                /\ Accepting(malloc, r) = {}
                /\ HasRoom(malloc.arena, s) => ArenaAccepts(malloc, s, r)
            /\ s = 0 => r = CryptMalloc_allocate(malloc, 16)

(* C17 amended: for 1 <= s <= 256 only the smallest tier whose block size
   is at least s is asked, and it accepts exactly when it has a free slot:
   then the result is its first free slot, otherwise the request fails with
   value 0 although larger tiers may have free slots; the arena is left
   alone.  For s > 256 every tier declines and the arena accepts exactly
   when it has room.  s = 0 behaves exactly as s = 16. *)
C17_RoutesToSmallestTier ==
    \A s \in RouteSizes :
        \A r \in {CryptMalloc_allocate(malloc, s)} :
        /\ (1 <= s /\ s <= 256) =>
            LET slab == malloc.slabs[Tier(s)] IN
            /\ r.malloc.arena = malloc.arena
            /\ Accepting(malloc, r) \subseteq {Tier(s)}
            /\ IF FreeSlots(slab) # {}
               THEN /\ Accepting(malloc, r) = {Tier(s)}
                    /\ r.is_some
                    /\ \E i \in FreeSlots(slab) :
                        /\ \A j \in FreeSlots(slab) : i <= j
                        /\ r.value = SlotAddress(slab, i)
                        /\ r.malloc.slabs[Tier(s)].bitmap = [slab.bitmap EXCEPT ![i] = TRUE]
               ELSE /\ Accepting(malloc, r) = {}
                    /\ ~r.is_some
                    /\ r.value = 0
        /\ s > 256 =>
            /\ Accepting(malloc, r) = {}
            /\ IF HasRoom(malloc.arena, s)
               THEN ArenaAccepts(malloc, s, r)
               ELSE ~r.is_some /\ r.value = 0 /\ r.malloc = malloc
        /\ s = 0 => r = CryptMalloc_allocate(malloc, 16)

C17_Witness ==
    /\ FreeSlots(malloc.slabs[1]) = {}
    /\ FreeSlots(malloc.slabs[2]) # {}
    /\ malloc.slabs[3].bitmap[1]
    /\ malloc.arena.cursor > malloc.arena.start
    /\ HasRoom(malloc.arena, 257)

(* C18 as stated: Arena::allocate(size) succeeds exactly when cursor + size
   modulo the word size is at most end and did not wrap below cursor; on
   success it returns the old cursor and advances cursor by size, on failure
   it returns 0 and leaves cursor unchanged; start <= cursor <= end holds
   after any sequence of allocate and reset calls. *)
C18_CursorStaysInBounds ==
    /\ \A size \in 0..(U64_MODULUS - 1) :
        \A r \in {Arena_allocate(malloc.arena, size)} :
        LET arena == malloc.arena
            sum == (arena.cursor + size) % U64_MODULUS
        IN
        /\ r.is_some <=> (sum <= arena.end /\ ~(sum < arena.cursor))
        /\ r.is_some => (r.value = arena.cursor /\ r.arena = [arena EXCEPT !.cursor = sum])
        /\ ~r.is_some => (r.value = 0 /\ r.arena = arena)
    /\ malloc.arena.start <= malloc.arena.cursor
    /\ malloc.arena.cursor <= malloc.arena.end

(* C18 amended: the same contract of Arena::allocate; start <= cursor holds
   after any sequence of allocate and reset calls, and cursor <= end holds
   as well when the arena was constructed with start <= end (an arena
   constructed with start > end keeps cursor = start > end and refuses
   every request). *)
C18_CursorStaysInBoundsOfOrderedArena ==
    /\ \A size \in 0..(U64_MODULUS - 1) :
        \A r \in {Arena_allocate(malloc.arena, size)} :
        LET arena == malloc.arena
            sum == (arena.cursor + size) % U64_MODULUS
        IN
        /\ r.is_some <=> (sum <= arena.end /\ ~(sum < arena.cursor))
        /\ r.is_some => (r.value = arena.cursor /\ r.arena = [arena EXCEPT !.cursor = sum])
        /\ ~r.is_some => (r.value = 0 /\ r.arena = arena)
        /\ malloc.arena.start > malloc.arena.end => ~r.is_some
    /\ malloc.arena.start <= malloc.arena.cursor
    /\ malloc.arena.start <= malloc.arena.end => malloc.arena.cursor <= malloc.arena.end
    /\ malloc.arena.start > malloc.arena.end => malloc.arena.cursor = malloc.arena.start

C18_Witness ==
    /\ malloc.arena.start < malloc.arena.cursor
    /\ malloc.arena.cursor < malloc.arena.end
    /\ \E size \in 0..(U64_MODULUS - 1) :
        /\ (malloc.arena.cursor + size) % U64_MODULUS <= malloc.arena.end
        /\ (malloc.arena.cursor + size) % U64_MODULUS < malloc.arena.cursor
        /\ ~Arena_allocate(malloc.arena, size).is_some

(* The blocks a caller can hold: the snapshots of the pool's blocks. *)
Snapshots(s) == {Block(s, h).block : h \in LiveHandles(s)}

(* Pairs of snapshots, as they are or both after mark_free. *)
SnapshotPairs(s) ==
    UNION {{<<left, right>>, <<mark_free(left), mark_free(right)>>} :
              <<left, right>> \in Snapshots(s) \X Snapshots(s)}

(* Arguments of split_block: the handle and the address of the trailing
   block, the address where the leading part ends or any other. *)
NewHandles == {0, HandleMax}

NewAddresses(block, leading) == {block.address + leading, block.address}

(* C19: split_block(leading, new_handle, new_address) with 0 < leading < size
   leaves self with size = leading and next link (new_handle, new_address)
   and returns a free trailing block at new_address of size old size -
   leading whose prev link is (self handle, self address) and whose next
   link is self's old next link; with leading = 0 or leading >= size it
   fails with an invalid-operation error and changes nothing. *)
C19_SplitBlockWiresLinks ==
    \A block \in Snapshots(state) :
        \A leading \in 0..(block.size.value + 1), new_handle \in NewHandles :
          \A new_address \in NewAddresses(block, leading) :
            \A r \in {block_split_block(block, leading, new_handle, new_address)} :
                IF 0 < leading /\ leading < block.size.value
                THEN /\ r.err = "Ok"
                     /\ r.leading.size.value = leading
                     /\ r.leading.next_handle = Some(new_handle)
                     /\ r.leading.next_pointer = Some(new_address)
                     /\ r.leading.address = block.address
                     /\ r.leading.self_handle = block.self_handle
                     /\ r.leading.prev_handle = block.prev_handle
                     /\ r.leading.prev_pointer = block.prev_pointer
                     /\ r.leading.allocated = block.allocated
                     /\ ~r.trailing.allocated
                     /\ r.trailing.address = new_address
                     /\ r.trailing.self_handle = Some(new_handle)
                     /\ r.trailing.size.value = block.size.value - leading
                     /\ r.trailing.prev_handle = block.self_handle
                     /\ r.trailing.prev_pointer = Some(block.address)
                     /\ r.trailing.next_handle = block.next_handle
                     /\ r.trailing.next_pointer = block.next_pointer
                ELSE /\ r.err = "InvalidOperation"
                     /\ r.leading = block

C19_Witness ==
    \E block \in Snapshots(state) :
        /\ block.size.value >= 2
        /\ block.next_handle # None
        /\ block.prev_handle # None
        /\ block.allocated

(* C20: merge_blocks(left, right) succeeds only if both blocks share the
   context, both are free and left.address + left.size = right.address;
   when one of these fails it returns ContextMismatch or an
   invalid-operation error; on success the merged block has left's address
   and prev link, right's next link and size left.size + right.size. *)
C20_MergeBlocksRequiresFreeNeighbours ==
    \A pair \in SnapshotPairs(state), context \in Contexts :
        \A right \in {[pair[2] EXCEPT !.context = context]} :
        \A r \in {merge_blocks(pair[1], right)} :
            LET left == pair[1]
                mergeable ==
                    /\ left.context = right.context
                    /\ ~left.allocated /\ ~right.allocated
                    /\ left.address + left.size.value = right.address
            IN
            /\ r.err = "Ok" => mergeable
            /\ ~mergeable => r.err \in {"ContextMismatch", "InvalidOperation"}
            /\ left.context # right.context => r.err = "ContextMismatch"
            /\ r.err # "Ok" => r.block = left
            /\ r.err = "Ok" =>
                /\ r.block.address = left.address
                /\ r.block.self_handle = left.self_handle
                /\ r.block.prev_handle = left.prev_handle
                /\ r.block.prev_pointer = left.prev_pointer
                /\ r.block.next_handle = right.next_handle
                /\ r.block.next_pointer = right.next_pointer
                /\ r.block.size.value = left.size.value + right.size.value
                /\ ~r.block.allocated

C20_Witness ==
    \E pair \in SnapshotPairs(state) :
        /\ merge_blocks(pair[1], pair[2]).err = "Ok"
        /\ pair[1].prev_handle # None
        /\ pair[2].next_handle # None
        /\ \E other \in Snapshots(state) :
            /\ ~other.allocated
            /\ pair[1].address + pair[1].size.value # other.address

(* ------------------- an EncryptedMemoryBlock at work ------------------ *)

BlockAddresses == {0, 1}

BlockSizes == {1, 2}

BlockHandles == {0, 1}

(* The other block of absorb_right and merge_blocks, built the way the block
   tests build theirs. *)
OtherBlocks ==
    {set_next(with_layout(context, address, 1, 1), link[1], link[2]) :
        context \in Contexts, address \in {2, 3}, link \in {<<None, None>>, <<Some(0), Some(1)>>}}

(* The neighbours a caller links a block to: none, or a handle with its address. *)
Links == {<<None, None>>} \cup {<<Some(handle), Some(handle)>> : handle \in BlockHandles}

InitBlock ==
    /\ plain = [total_bytes |-> TotalBytes, base_address |-> 1, min_alignment |-> 1]
    /\ metadata = [capacity |-> TotalBytes, base_address |-> 1, min_alignment |-> 1]
    /\ digest = Sha256(TotalBytes, 1, 1)
    /\ state = build(TotalBytes, 1, 1)
    /\ calls_ok = TRUE
    /\ SideAtRest
    /\ lock = None
    /\ pc = [t \in Workers |-> "done"]
    /\ local = [t \in Workers |-> NoLocals]
    /\ observed = NoObservation
    /\ malloc = CryptMalloc_new(ArenaSize)
    /\ \E address \in BlockAddresses, size \in BlockSizes, handle \in BlockHandles :
        held = with_layout("pool", address, size, handle)
    /\ regs = NoRegs
    /\ wire = NoWire

rest == <<pool, malloc, regs, wire, side>>

BlockSetSelfHandle ==
    /\ \E handle \in BlockHandles : held' = set_self_handle(held, handle)
    /\ UNCHANGED rest

BlockSetAddress ==
    /\ \E address \in BlockAddresses : held' = set_address(held, address)
    /\ UNCHANGED rest

BlockSetSizePlain ==
    /\ \E size \in BlockSizes : held' = set_size_plain(held, size)
    /\ UNCHANGED rest

BlockMarkAllocated ==
    /\ held' = mark_allocated(held)
    /\ UNCHANGED rest

BlockMarkFree ==
    /\ held' = mark_free(held)
    /\ UNCHANGED rest

BlockSetPrev ==
    /\ \E link \in Links : held' = set_prev(held, link[1], link[2])
    /\ UNCHANGED rest

BlockSetNext ==
    /\ \E link \in Links : held' = set_next(held, link[1], link[2])
    /\ UNCHANGED rest

(* split_block; the caller goes on with the leading or with the trailing block. *)
BlockSplit ==
    /\ \E leading \in 0..2, new_handle \in BlockHandles, new_address \in BlockAddresses :
        \E r \in {block_split_block(held, leading, new_handle, new_address)} :
            held' \in {r.leading, r.trailing}
    /\ UNCHANGED rest

BlockAbsorbRight ==
    /\ \E right \in OtherBlocks :
        \E r \in {absorb_right(held, right)} : held' = r.block
    /\ UNCHANGED rest

(* merge_blocks consumes both blocks; after a failure the caller goes on
   with a snapshot of the left one. *)
BlockMerge ==
    /\ \E right \in OtherBlocks :
        \E r \in {merge_blocks(held, right)} : held' = r.block
    /\ UNCHANGED rest

BlockZeroize ==
    /\ held' = zeroize_sensitive(held)
    /\ UNCHANGED rest

NextBlock ==
    \/ BlockSetSelfHandle \/ BlockSetAddress \/ BlockSetSizePlain
    \/ BlockMarkAllocated \/ BlockMarkFree
    \/ BlockSetPrev \/ BlockSetNext
    \/ BlockSplit \/ BlockAbsorbRight \/ BlockMerge
    \/ BlockZeroize

SpecBlock == InitBlock /\ [][NextBlock]_vars

(* C21: after every mutating operation of a block (with_layout,
   set_self_handle, set_address, set_size_plain, mark_allocated, mark_free,
   set_prev, set_next, split_block, absorb_right, merge_blocks,
   zeroize_sensitive) validate_integrity() returns true: the stored checksum
   equals the checksum recomputed over the current fields.  This covers both
   blocks of a split and the blocks the pool keeps. *)
C21_ChecksumFollowsEveryMutation ==
    /\ validate_integrity(held)
    /\ \A right \in OtherBlocks : validate_integrity(right)
    /\ \A leading \in 0..2, new_handle \in BlockHandles, new_address \in BlockAddresses :
        \A r \in {block_split_block(held, leading, new_handle, new_address)} :
            validate_integrity(r.leading) /\ (r.err = "Ok" => validate_integrity(r.trailing))

C21_Witness ==
    /\ held.size.noise.consumed > 0
    /\ held.prev_box
    /\ held.next_handle # None
    /\ held.prev_handle # None
    /\ held.allocated

(* C22: after any one of corrupt_checksum, corrupt_prev_handle_cipher and
   corrupt_next_pointer_cipher, validate_integrity() returns false, also for
   a block with no next pointer and for a block whose previous handle is 0. *)
C22_CorruptionIsDetected ==
    /\ ~validate_integrity(corrupt_checksum(held))
    /\ ~validate_integrity(corrupt_prev_handle_cipher(held))
    /\ ~validate_integrity(corrupt_next_pointer_cipher(held))

(* --------------------- typed ciphertexts at work ---------------------- *)

Values == 0..U8_MAX

InitOps ==
    /\ plain = [total_bytes |-> TotalBytes, base_address |-> 1, min_alignment |-> 1]
    /\ metadata = [capacity |-> TotalBytes, base_address |-> 1, min_alignment |-> 1]
    /\ digest = Sha256(TotalBytes, 1, 1)
    /\ state = build(TotalBytes, 1, 1)
    /\ calls_ok = TRUE
    /\ SideAtRest
    /\ lock = None
    /\ pc = [t \in Workers |-> "done"]
    /\ local = [t \in Workers |-> NoLocals]
    /\ observed = NoObservation
    /\ malloc = CryptMalloc_new(ArenaSize)
    /\ held = with_layout("pool", 0, 0, 0)
    /\ \E lhs \in Values, rhs \in Values, context \in OpContexts :
        regs = [lhs |-> EncryptedUint8_encrypt(lhs, context),
                rhs |-> EncryptedUint8_encrypt(rhs, context),
                flag |-> EncryptedBool_encrypt(FALSE, context)]
    /\ wire = NoWire

others == <<pool, malloc, held, wire, side>>

ArithmeticOps ==
    {"wrapping_add", "wrapping_sub", "wrapping_mul", "checked_add", "checked_sub",
     "checked_mul", "saturating_add", "saturating_mul"}

Arithmetic(name, lhs, rhs) ==
    CASE name = "wrapping_add" -> EncryptedUint8_wrapping_add(lhs, rhs)
      [] name = "wrapping_sub" -> EncryptedUint8_wrapping_sub(lhs, rhs)
      [] name = "wrapping_mul" -> EncryptedUint8_wrapping_mul(lhs, rhs)
      [] name = "checked_add" -> EncryptedUint8_checked_add(lhs, rhs)
      [] name = "checked_sub" -> EncryptedUint8_checked_sub(lhs, rhs)
      [] name = "checked_mul" -> EncryptedUint8_checked_mul(lhs, rhs)
      [] name = "saturating_add" -> EncryptedUint8_saturating_add(lhs, rhs)
      [] name = "saturating_mul" -> EncryptedUint8_saturating_mul(lhs, rhs)

BatchOps == {"batch_add", "batch_sub", "batch_mul"}

Batch(name, inputs) ==
    CASE name = "batch_add" -> batch_add(inputs)
      [] name = "batch_sub" -> batch_sub(inputs)
      [] name = "batch_mul" -> batch_mul(inputs)

ComparisonOps == {"eq", "ne", "lt", "le", "gt", "ge"}

Comparison(name, lhs, rhs) ==
    CASE name = "eq" -> eq_cipher(lhs, rhs)
      [] name = "ne" -> ne_cipher(lhs, rhs)
      [] name = "lt" -> lt_cipher(lhs, rhs)
      [] name = "le" -> le_cipher(lhs, rhs)
      [] name = "gt" -> gt_cipher(lhs, rhs)
      [] name = "ge" -> ge_cipher(lhs, rhs)

MinMaxOps == {"min", "max"}

MinMax(name, lhs, rhs) ==
    CASE name = "min" -> min_cipher(lhs, rhs)
      [] name = "max" -> max_cipher(lhs, rhs)

BoolOps == {"and", "or", "xor"}

Bool(name, lhs, rhs) ==
    CASE name = "and" -> EncryptedBool_and(lhs, rhs)
      [] name = "or" -> EncryptedBool_or(lhs, rhs)
      [] name = "xor" -> EncryptedBool_xor(lhs, rhs)

(* A result replaces the left operand; a failed call leaves all as it was. *)
Into(field, r) ==
    regs' = IF r.err = "Ok" THEN [regs EXCEPT ![field] = Unwrap(r.out)] ELSE regs

OpEncrypt ==
    /\ \E value \in Values, context \in OpContexts :
        regs' = [regs EXCEPT !.rhs = EncryptedUint8_encrypt(value, context)]
    /\ UNCHANGED others

OpArithmetic ==
    /\ \E name \in ArithmeticOps :
        \E r \in {Arithmetic(name, regs.lhs, regs.rhs)} : Into("lhs", r)
    /\ UNCHANGED others

OpBatch ==
    /\ \E name \in BatchOps :
        \E r \in {Batch(name, <<<<regs.lhs, regs.rhs>>, <<regs.rhs, regs.rhs>>>>)} :
            regs' = IF r.err = "Ok" THEN [regs EXCEPT !.lhs = Unwrap(r.out)[1]] ELSE regs
    /\ UNCHANGED others

OpCompare ==
    /\ \E name \in ComparisonOps :
        \E r \in {Comparison(name, regs.lhs, regs.rhs)} : Into("flag", r)
    /\ UNCHANGED others

OpMinMax ==
    /\ \E name \in MinMaxOps :
        \E r \in {MinMax(name, regs.lhs, regs.rhs)} : Into("lhs", r)
    /\ UNCHANGED others

OpSelect ==
    /\ \E r \in {select_integer(regs.flag, regs.lhs, regs.rhs)} : Into("lhs", r)
    /\ UNCHANGED others

OpBool ==
    /\ \E name \in BoolOps, value \in BOOLEAN, context \in OpContexts :
        \E r \in {Bool(name, regs.flag, EncryptedBool_encrypt(value, context))} : Into("flag", r)
    /\ UNCHANGED others

NextOps ==
    \/ OpEncrypt \/ OpArithmetic \/ OpBatch \/ OpCompare \/ OpMinMax \/ OpSelect \/ OpBool

SpecOps == InitOps /\ [][NextOps]_vars

Rejected(r) == r.err = "ContextMismatch" /\ r.out = None

(* The calls of two integer operands a caller can make on the ciphertexts it
   holds, and those on two booleans. *)
IntegerCallsRejected(lhs, rhs) ==
    /\ \A name \in ArithmeticOps : Rejected(Arithmetic(name, lhs, rhs))
    /\ \A name \in BatchOps : Rejected(Batch(name, <<<<lhs, rhs>>>>))
    /\ \A name \in ComparisonOps : Rejected(Comparison(name, lhs, rhs))
    /\ \A name \in MinMaxOps : Rejected(MinMax(name, lhs, rhs))

BoolCallsRejected(lhs, rhs) == \A name \in BoolOps : Rejected(Bool(name, lhs, rhs))

OtherFlags == {EncryptedBool_encrypt(value, context) : value \in BOOLEAN, context \in OpContexts}

(* C23: every operation of two operands (wrapping_*, checked_*,
   saturating_*, batch_*, the comparisons, min/max, select_integer, and/or/
   xor on booleans) whose operands come from contexts that are not
   reference-identical fails with ContextMismatch and returns no result,
   whatever the operands decrypt to, overflowing values included. *)
C23_MixedContextsAreRejected ==
    /\ \A pair \in {<<regs.lhs, regs.rhs>>, <<regs.rhs, regs.lhs>>} :
        pair[1].context # pair[2].context => IntegerCallsRejected(pair[1], pair[2])
    /\ \A other \in OtherFlags :
        regs.flag.context # other.context =>
            BoolCallsRejected(regs.flag, other) /\ BoolCallsRejected(other, regs.flag)
    /\ \A condition \in OtherFlags \cup {regs.flag} :
        \/ condition.context = regs.lhs.context /\ condition.context = regs.rhs.context
        \/ Rejected(select_integer(condition, regs.lhs, regs.rhs))

Consumed(x) == x.noise.consumed

Grows(r, consumed) ==
    r.err = "Ok" => \A before \in consumed : Consumed(Unwrap(r.out)) > before

(* saturating_add / saturating_mul take the clamping branch *)
Clamps(name, lhs, rhs) ==
    \/ name = "saturating_add" /\ lhs.value + rhs.value > U8_MAX
    \/ name = "saturating_mul" /\ lhs.value * rhs.value > U8_MAX

GrowsOutsideArithmetic ==
    /\ \A name \in BatchOps :
        \A r \in {Batch(name, <<<<regs.lhs, regs.rhs>>, <<regs.rhs, regs.lhs>>>>)} :
            r.err = "Ok" =>
                \A i \in 1..2 : \A before \in {Consumed(regs.lhs), Consumed(regs.rhs)} :
                    Consumed(Unwrap(r.out)[i]) > before
    /\ \A name \in ComparisonOps : Grows(Comparison(name, regs.lhs, regs.rhs), {Consumed(regs.lhs), Consumed(regs.rhs)})
    /\ \A name \in MinMaxOps : Grows(MinMax(name, regs.lhs, regs.rhs), {Consumed(regs.lhs), Consumed(regs.rhs)})
    /\ Grows(select_integer(regs.flag, regs.lhs, regs.rhs), {Consumed(regs.flag), Consumed(regs.lhs), Consumed(regs.rhs)})
    /\ \A name \in BoolOps, other \in OtherFlags :
        Grows(Bool(name, regs.flag, other), {Consumed(regs.flag), Consumed(other)})

(* C24 as stated: for every successful binary operation the noise consumed
   by the result is strictly greater than that of each operand. *)
C24_NoiseStrictlyGrows ==
    /\ \A name \in ArithmeticOps :
        Grows(Arithmetic(name, regs.lhs, regs.rhs), {Consumed(regs.lhs), Consumed(regs.rhs)})
    /\ GrowsOutsideArithmetic

(* C24, amended: the noise consumed by the result of a successful binary
   operation is strictly greater than that of each operand, except for a
   saturating_add or saturating_mul that clamps: its result is a fresh
   encryption of the maximum, with nothing consumed. *)
C24_NoiseGrowsUnlessClamped ==
    /\ \A name \in ArithmeticOps :
        \A r \in {Arithmetic(name, regs.lhs, regs.rhs)} :
            IF Clamps(name, regs.lhs, regs.rhs)
            THEN r = OpOk(EncryptedUint8_encrypt(U8_MAX, regs.lhs.context))
            ELSE Grows(r, {Consumed(regs.lhs), Consumed(regs.rhs)})
    /\ GrowsOutsideArithmetic

C24_Witness ==
    /\ Consumed(regs.lhs) > 0
    /\ Consumed(regs.flag) > 0
    /\ EncryptedUint8_wrapping_mul(regs.lhs, regs.rhs).err = "Ok"
    /\ select_integer(regs.flag, regs.lhs, regs.rhs).err = "Ok"
    /\ Clamps("saturating_add", regs.lhs, regs.rhs)

(* The noise states at hand and the costs the operations charge. *)
NoiseStates == {regs.lhs.noise, regs.rhs.noise, regs.flag.noise}

Costs ==
    {0, COST_ADDITION, COST_SUBTRACTION, COST_MULTIPLICATION, COST_COMPARISON,
     COST_SELECT_BRANCH, COST_SELECT_CONTROL}

WithinCapacity(noise) == noise.consumed <= noise.capacity

ConsumeIsAllOrNothing ==
    \A noise \in NoiseStates, amount \in Costs :
        \A c \in {consume(noise, amount)} :
            /\ c.err = "Ok" <=> noise.consumed + amount <= noise.capacity
            /\ c.err = "Ok" =>
                c.noise = [consumed |-> noise.consumed + amount, capacity |-> noise.capacity]
            /\ c.err # "Ok" => c.err = "NoiseBudgetExceeded" /\ c.noise = noise
            /\ WithinCapacity(c.noise)

(* C25 as stated: merge returns the element-wise maximum of consumed and of
   capacity with the cost added to consumed, and fails with
   NoiseBudgetExceeded only when consumed would exceed capacity; every noise
   state satisfies consumed <= capacity; a failed consume or merge leaves its
   inputs as they were. *)
C25_MergeIsElementwiseMax ==
    /\ \A noise \in NoiseStates : WithinCapacity(noise)
    /\ ConsumeIsAllOrNothing
    /\ \A lhs \in NoiseStates, rhs \in NoiseStates, cost \in Costs :
        \A m \in {merge(lhs, rhs, cost)} :
            LET consumed == Max2(lhs.consumed, rhs.consumed) + cost
                capacity == Max2(lhs.capacity, rhs.capacity)
            IN  /\ m.err = "Ok" => m.noise = [consumed |-> consumed, capacity |-> capacity]
                /\ m.err # "Ok" => m.err = "NoiseBudgetExceeded" /\ consumed > capacity

(* C25, amended: merge fails with NoiseBudgetExceeded when the two
   capacities differ, and otherwise when the larger consumed plus the cost
   would exceed the common capacity; when it succeeds it returns that sum
   with the common capacity.  Every noise state satisfies consumed <=
   capacity, and a failed consume or merge leaves its inputs as they were. *)
C25_MergeNeedsEqualCapacities ==
    /\ \A noise \in NoiseStates : WithinCapacity(noise)
    /\ ConsumeIsAllOrNothing
    /\ \A lhs \in NoiseStates, rhs \in NoiseStates, cost \in Costs :
        \A m \in {merge(lhs, rhs, cost)} :
            LET consumed == Max2(lhs.consumed, rhs.consumed) + cost IN
            /\ m.err = "Ok" <=> lhs.capacity = rhs.capacity /\ consumed <= lhs.capacity
            /\ m.err = "Ok" => m.noise = [consumed |-> consumed, capacity |-> lhs.capacity]
            /\ m.err # "Ok" => m.err = "NoiseBudgetExceeded"
            /\ m.err = "Ok" => WithinCapacity(m.noise)

C25_Witness ==
    /\ regs.lhs.noise.capacity # regs.rhs.noise.capacity
    /\ regs.lhs.noise.consumed > 0
    /\ regs.flag.noise.consumed > regs.lhs.noise.consumed
    /\ merge(regs.lhs.noise, regs.flag.noise, COST_ADDITION).err = "Ok"
    /\ merge(regs.lhs.noise, regs.flag.noise, COST_MULTIPLICATION).err = "NoiseBudgetExceeded"

(* ---------------------- context envelope at work ---------------------- *)

KeyBytes == {0, 1, BYTE_MAX}

EnvelopePositions == 1..(2 * PayloadLen)

Flipped(bytes, position) == [bytes EXCEPT ![position] = flip(bytes[position])]

InitKeys ==
    /\ plain = [total_bytes |-> TotalBytes, base_address |-> 1, min_alignment |-> 1]
    /\ metadata = [capacity |-> TotalBytes, base_address |-> 1, min_alignment |-> 1]
    /\ digest = Sha256(TotalBytes, 1, 1)
    /\ state = build(TotalBytes, 1, 1)
    /\ calls_ok = TRUE
    /\ SideAtRest
    /\ lock = None
    /\ pc = [t \in Workers |-> "done"]
    /\ local = [t \in Workers |-> NoLocals]
    /\ observed = NoObservation
    /\ malloc = CryptMalloc_new(ArenaSize)
    /\ held = with_layout("pool", 0, 0, 0)
    /\ regs = NoRegs
    /\ \E config \in KeyBytes, security_level \in SecurityLevels, enable_compression \in BOOLEAN,
          client_key \in KeyBytes, server_key \in KeyBytes :
        LET context ==
                KeyMaterial(config, security_level, enable_compression, client_key, server_key)
        IN  wire = [context |-> context, bytes |-> export_keys(context), imported |-> "none"]

unwired == <<pool, malloc, held, regs, side>>

(* export_keys: a fresh envelope of the context's keys. *)
WireExport ==
    /\ wire' = [wire EXCEPT !.bytes = export_keys(wire.context), !.imported = "none"]
    /\ UNCHANGED unwired

(* One byte of a fresh envelope is flipped on its way. *)
WireFlip ==
    /\ wire.bytes = export_keys(wire.context)
    /\ \E position \in EnvelopePositions :
        wire' = [wire EXCEPT !.bytes = Flipped(wire.bytes, position), !.imported = "none"]
    /\ UNCHANGED unwired

(* from_serialized of the bytes as they arrive. *)
WireImport ==
    /\ wire' = [wire EXCEPT !.imported = from_serialized(wire.bytes).err]
    /\ UNCHANGED unwired

NextKeys == WireExport \/ WireFlip \/ WireImport

SpecKeys == InitKeys /\ [][NextKeys]_vars

(* C26 as stated: for every byte position of an export_keys envelope,
   from_serialized of the envelope with that byte flipped fails with
   IntegrityViolation. *)
C26_EveryFlippedByteIsAnIntegrityViolation ==
    \A position \in EnvelopePositions :
        from_serialized(Flipped(export_keys(wire.context), position)).err = "IntegrityViolation"

(* The bytes bincode decodes strictly: the variant index of the security
   level and the bool of enable_compression. *)
StrictPositions == (PayloadLen + 2)..(PayloadLen + 6)

(* C26, amended: for every byte position of an export_keys envelope,
   from_serialized of the envelope with that byte flipped fails and yields
   no context: with Serialization when the flipped byte no longer decodes
   (the variant index of the security level, the bool of
   enable_compression), and with IntegrityViolation for every other byte,
   those of the checksum included.  The untouched envelope is accepted and
   gives back the exported keys. *)
C26_EveryFlippedByteIsRejected ==
    /\ from_serialized(export_keys(wire.context)) = [err |-> "Ok", context |-> Some(wire.context)]
    /\ \A position \in EnvelopePositions :
        \A r \in {from_serialized(Flipped(export_keys(wire.context), position))} :
            /\ r.context = None
            /\ r.err = IF position \in StrictPositions THEN "Serialization"
                       ELSE "IntegrityViolation"
    /\ wire.imported = "Ok" => wire.bytes = export_keys(wire.context)

C26_Witness ==
    /\ wire.bytes # export_keys(wire.context)
    /\ wire.imported = "IntegrityViolation"
    /\ wire.context.enable_compression
    /\ wire.context.security_level = 2

(* -------------------------- placement, again -------------------------- *)

(* The head padding as the arithmetic of the claim has it. *)
PaddingTo(start, alignment) == (alignment - (start % alignment)) % alignment

(* The positions of the free list whose block can hold the request. *)
Qualifying(s, size, alignment) ==
    {i \in 1..Len(s.free_list) :
        /\ s.free_list[i] \in LiveHandles(s)
        /\ Block(s, s.free_list[i]).size_plain
               >= PaddingTo(Block(s, s.free_list[i]).start_addr_plain, alignment) + size}

First(positions) == CHOOSE i \in positions : \A j \in positions : i <= j

(* C27: allocate_block scans the free list in its stored order and allocates
   from the first entry whose size is at least head_padding + size, with
   head_padding = (alignment - (start mod alignment)) mod alignment for the
   effective alignment: when some entry qualifies the search finds the first
   such entry, the call does not report OutOfMemory, and a successful call
   places the block at that entry's start plus the padding. *)
C27_AllocatesFromFirstQualifyingEntry ==
    \A rq \in ValidRequests(plain) :
        \A alignment \in {Max2(rq.alignment, plain.min_alignment)} :
        \A positions \in {Qualifying(state, rq.size, alignment)} :
        \A r \in {allocate_block(plain, metadata, digest, state, rq.size, rq.alignment)} :
        positions # {} =>
            \A origin \in {Block(state, state.free_list[First(positions)])} :
            /\ find_fit(state, rq.size, alignment)
                   = Some([handle |-> origin.handle,
                           padding |-> PaddingTo(origin.start_addr_plain, alignment)])
            /\ r.err # "OutOfMemory"
            /\ r.err = "Ok" =>
                Block(r.state, r.handle).start_addr_plain
                    = origin.start_addr_plain + PaddingTo(origin.start_addr_plain, alignment)

(* ----------------------------- coalescing ----------------------------- *)

AddressAdjacent(s, left, right) == BlockEnd(s, left) = Block(s, right).start_addr_plain

(* C28: after any sequence of allocate_block and release_block calls, those
   that returned an error included, no two address-adjacent blocks of the
   pool are both free. *)
C28_NoAdjacentFreeBlocks ==
    \A left \in LiveHandles(state), right \in LiveHandles(state) :
        AddressAdjacent(state, left, right) =>
            ~(Block(state, left).free /\ Block(state, right).free)

(* The pool as build leaves it, as far as its blocks go: one free block over
   the whole range, alone on the free list, nothing in use. *)
SingleFreeBlock(s, p) ==
    \E h \in LiveHandles(s) :
        /\ LiveHandles(s) = {h}
        /\ Block(s, h).free
        /\ Block(s, h).start_addr_plain = p.base_address
        /\ BlockEnd(s, h) = p.base_address + p.total_bytes
        /\ Block(s, h).block.address = p.base_address
        /\ Block(s, h).block.size.value = p.total_bytes
        /\ ~Block(s, h).block.allocated
        /\ Block(s, h).prev = None /\ Block(s, h).next = None
        /\ s.free_list = <<h>>
        /\ s.used_bytes = 0

(* C29: after any sequence of successful allocate_block and release_block
   calls in which every allocated handle has been released, the pool is back
   to a single free block that spans [base_address, base_address +
   total_bytes), with used_bytes = 0 and a free list holding exactly that
   block. *)
C29_AllReleasedIsOneFreeBlock ==
    (calls_ok /\ AllocatedHandles(state) = {}) => SingleFreeBlock(state, plain)

C29_Witness ==
    /\ calls_ok
    /\ AllocatedHandles(state) = {}
    /\ state.allocations >= 2
    /\ state.deallocations = state.allocations
    /\ state.vacant_handles # << >>
    /\ SingleFreeBlock(state, plain)

(* --------------------------- handle stability ------------------------- *)

(* What a handle stands for, to the caller that holds it. *)
Identity(s, h) ==
    <<Block(s, h).start_addr_plain, Block(s, h).size_plain,
      Block(s, h).block.address, Block(s, h).block.size.value>>

(* The blocks allocated in s are allocated in after, where and as large as
   they were, but for the one that was to be released. *)
AllocatedBlocksStay(s, after, released) ==
    \A h \in AllocatedHandles(s) \ released :
        /\ h \in AllocatedHandles(after)
        /\ Identity(after, h) = Identity(s, h)

(* C30: from the allocate_block call that returns handle h until the
   release_block(h) call, h identifies the same block with the same address
   and size, whatever other allocate_block and release_block calls happen:
   the handle of an allocated block is never on the recycled-handle stack
   and never returned by another allocate_block, and every call other than
   release_block(h), failed calls included, leaves the block of h allocated,
   where and as large as it was. *)
C30_HandleKeepsItsBlock ==
    /\ \A h \in AllocatedHandles(state) : ~contains(state.vacant_handles, h)
    /\ \A size \in Sizes, alignment \in Alignments :
        \A r \in {allocate_block(plain, metadata, digest, state, size, alignment)} :
            /\ r.err = "Ok" => r.handle \notin AllocatedHandles(state)
            /\ AllocatedBlocksStay(state, r.state, {})
    /\ \A handle \in Handles(state) :
        \A r \in {release_block(plain, metadata, digest, state, handle)} :
            AllocatedBlocksStay(state, r.state, {handle})

C30_Witness ==
    \E h \in AllocatedHandles(state) :
        /\ state.allocations >= 3
        /\ state.deallocations >= 1
        /\ state.vacant_handles # << >>
        /\ \E g \in AllocatedHandles(state) : g < h /\ Block(state, g).start_addr_plain > Block(state, h).start_addr_plain

(* ------------------- clones of one VirtualMemoryPool ----------------- *)

(* impl Drop for VirtualMemoryPool: every clone shares state through the Arc,
   and dropping any of them empties the four vectors of that shared state.
   The counters, next_handle among them, stay. *)
VirtualMemoryPool_drop(s) ==
    [s EXCEPT !.blocks = << >>,
              !.free_list = << >>,
              !.vacant_handles = << >>,
              !.access_log = << >>]

(* The handles callers can hold: alloc_handle hands out a vacated handle or
   next_handle, so every handle ever returned is below next_handle. *)
IssuedHandles(s) == 0..(s.next_handle - 1)

(* A panic under the write guard poisons the RwLock; from then on write()?
   and read()? fail with LockPoisoned and Drop skips its body. *)
Poisoned == Some("poisoned")

unshared ==
    <<plain, metadata, digest, pc, local, observed, malloc, held, regs, wire, side>>

CloneAllocate ==
    /\ lock = None
    /\ state.allocations < CloneAllocations
    /\ \E size \in Sizes, alignment \in Alignments :
        \E r \in {allocate_block(plain, metadata, digest, state, size, alignment)} :
            /\ state' = r.state
            /\ calls_ok' = (calls_ok /\ r.err = "Ok")
    /\ UNCHANGED <<lock, unshared>>

CloneRelease ==
    /\ lock = None
    /\ \E handle \in IssuedHandles(state) :
        \E r \in {release_block(plain, metadata, digest, state, handle)} :
            /\ state' = r.state
            /\ calls_ok' = (calls_ok /\ r.err = "Ok")
            /\ lock' = IF r.err = "IndexOutOfBounds" THEN Poisoned ELSE lock
    /\ UNCHANGED unshared

CloneRecordAccess ==
    /\ lock = None
    /\ state.timestamp < MaxAccesses
    /\ \E handle \in IssuedHandles(state) :
        \E r \in {record_access(state, handle)} :
            /\ state' = r.state
            /\ calls_ok' = (calls_ok /\ r.err = "Ok")
            /\ lock' = IF r.err = "IndexOutOfBounds" THEN Poisoned ELSE lock
    /\ UNCHANGED unshared

CloneDrop ==
    /\ lock = None
    /\ state' = VirtualMemoryPool_drop(state)
    /\ UNCHANGED <<calls_ok, lock, unshared>>

NextClones == CloneAllocate \/ CloneRelease \/ CloneRecordAccess \/ CloneDrop

SpecClones == Init /\ [][NextClones]_vars

(* What a caller of a clone sees of a call: its result. *)
Seen(r) == <<r.err, r.handle>>

(* C31: dropping one clone of a VirtualMemoryPool leaves the shared state
   intact: allocate_block, release_block of a handle returned earlier,
   record_access and block_snapshot on another clone give, after the drop,
   what they give without it. *)
C31_DropLeavesSharedState ==
    \A dropped \in {VirtualMemoryPool_drop(state)} :
        /\ \A size \in Sizes, alignment \in Alignments :
            Seen(allocate_block(plain, metadata, digest, dropped, size, alignment))
                = Seen(allocate_block(plain, metadata, digest, state, size, alignment))
        /\ \A handle \in IssuedHandles(state) :
            /\ Seen(release_block(plain, metadata, digest, dropped, handle))
                = Seen(release_block(plain, metadata, digest, state, handle))
            /\ Seen(record_access(dropped, handle)) = Seen(record_access(state, handle))
        /\ block_snapshot(dropped) = block_snapshot(state)

(* ------------------------- the access log ---------------------------- *)

(* The pool under allocate_block, release_block and record_access, with no
   clone dropped. *)
NextAccess == CloneAllocate \/ CloneRelease \/ CloneRecordAccess

SpecAccess == Init /\ [][NextAccess]_vars

FailedAccessLeavesState ==
    \A handle \in IssuedHandles(state) :
        \A r \in {record_access(state, handle)} :
            r.err = "UnknownHandle" => r.state = state

LoggedTimestampsCount ==
    \A k \in DOMAIN state.access_log : state.access_log[k].timestamp = k

(* C32: a record_access that fails with UnknownHandle leaves the pool state,
   the timestamp counter included, as it was; so the k-th successful
   record_access is logged with timestamp k. *)
C32_FailedAccessLeavesState == FailedAccessLeavesState /\ LoggedTimestampsCount

(* --------------------------- alignment ------------------------------- *)

(* C33 as stated: allocate_block fails with InvalidAlignment and leaves the
   pool unchanged whenever the requested alignment is zero or not a power of
   two, whatever min_alignment the pool was built with. *)
C33_BadAlignmentIsRejected ==
    \A size \in Sizes \ {0}, alignment \in Alignments :
        \A r \in {allocate_block(plain, metadata, digest, state, size, alignment)} :
            (alignment = 0 \/ ~is_power_of_two(alignment)) =>
                r.err = "InvalidAlignment" /\ r.state = state

(* C33, amended: the alignment is first raised to min_alignment; a request of
   non-zero size fails with InvalidAlignment exactly when the raised
   alignment is zero or not a power of two, and then the pool is unchanged. *)
C33_RaisedAlignmentIsChecked ==
    \A size \in Sizes \ {0}, alignment \in Alignments :
        \A r \in {allocate_block(plain, metadata, digest, state, size, alignment)} :
            \A raised \in {IF alignment >= plain.min_alignment THEN alignment
                           ELSE plain.min_alignment} :
                /\ r.err = "InvalidAlignment" <=> (raised = 0 \/ ~is_power_of_two(raised))
                /\ r.err = "InvalidAlignment" => r.state = state

(* After an allocation: alignment 3 is rejected, alignment 0 is raised to
   min_alignment and served. *)
C33_Witness ==
    /\ state.allocations > 0
    /\ allocate_block(plain, metadata, digest, state, 1, 3).err = "InvalidAlignment"
    /\ allocate_block(plain, metadata, digest, state, 1, 0).err = "Ok"

(* ----------------------- pointers of the tiers ----------------------- *)

(* The tier a request of size s <= 256 is routed to; sizes below 16, zero
   included, are coerced to 16. *)
RoutedTier(s) == IF s < size_bounds[1] THEN 1 ELSE Tier(s)

SlabSizes == {s \in RouteSizes : s <= size_bounds[5]}

(* C34: a successful allocate_masked selects the lowest-index free slot i
   (counted from 0) and returns base_offset + i * block_size; so every
   pointer CryptMalloc::allocate returns for a request routed to tier k lies
   in [base_k, base_k + block_size_k * num_blocks_k) at a multiple of
   block_size_k from base_k. *)
C34_PointerIsLowestFreeSlot ==
    /\ \A k \in 1..Len(malloc.slabs), M \in BOOLEAN :
        \A r \in {allocate_masked(malloc.slabs[k], M)} :
            r.is_some =>
                \E i \in FreeSlots(malloc.slabs[k]) :
                    /\ \A j \in FreeSlots(malloc.slabs[k]) : i <= j
                    /\ r.value = malloc.slabs[k].base_offset
                                     + (i - 1) * malloc.slabs[k].block_size
    /\ \A s \in SlabSizes :
        \A r \in {CryptMalloc_allocate(malloc, s)} :
            \A slab \in {malloc.slabs[RoutedTier(s)]} :
                r.is_some =>
                    /\ slab.base_offset <= r.value
                    /\ r.value < slab.base_offset + slab.block_size * slab.num_blocks
                    /\ (r.value - slab.base_offset) % slab.block_size = 0

(* The first tier has its first slot taken and its second free, and a request
   of one byte is served from the second slot. *)
C34_Witness ==
    /\ malloc.slabs[1].bitmap[1]
    /\ ~malloc.slabs[1].bitmap[2]
    /\ malloc.slabs[3].bitmap[1]
    /\ CryptMalloc_allocate(malloc, 1).is_some
    /\ CryptMalloc_allocate(malloc, 1).value = malloc.slabs[1].base_offset + malloc.slabs[1].block_size

(* -------------------------- no spilling ------------------------------ *)

(* The is_some flags of the six fan-out branches of CryptMalloc::allocate:
   the five slab results and the masked arena result. *)
BranchFlags(m, size) ==
    \A size_ct \in {IF size < size_bounds[1] THEN size_bounds[1] ELSE size} :
        \A true_branches \in
            {{k \in 1..Len(m.slabs) :
                  allocate_masked(m.slabs[k], tier_masks(size_ct)[k]).is_some}
             \cup (IF /\ size_ct > size_bounds[5]
                      /\ Arena_allocate(m.arena, size_ct).is_some
                   THEN {Len(m.slabs) + 1} ELSE {})} :
            Cardinality(true_branches) <= 1

(* C35: CryptMalloc::allocate never spills between tiers.  A request of
   size <= 256 leaves the arena cursor and the bitmaps of all tiers but the
   selected one unchanged, and returns is_some = false with pointer 0 when
   the selected tier is full; a request of size > 256 leaves every bitmap
   unchanged; at most one fan-out branch has is_some = true. *)
C35_NoSpillBetweenTiers ==
    \A s \in RouteSizes :
        \A r \in {CryptMalloc_allocate(malloc, s)} :
            /\ s <= size_bounds[5] =>
                /\ r.malloc.arena.cursor = malloc.arena.cursor
                /\ \A k \in 1..Len(malloc.slabs) :
                    k # RoutedTier(s) => r.malloc.slabs[k].bitmap = malloc.slabs[k].bitmap
                /\ FreeSlots(malloc.slabs[RoutedTier(s)]) = {} =>
                    ~r.is_some /\ r.value = 0
            /\ s > size_bounds[5] =>
                \A k \in 1..Len(malloc.slabs) :
                    r.malloc.slabs[k].bitmap = malloc.slabs[k].bitmap
            /\ BranchFlags(malloc, s)

(* The first tier is full while the second tier and the arena have room, and
   a one-byte request is refused. *)
C35_Witness ==
    /\ FreeSlots(malloc.slabs[1]) = {}
    /\ FreeSlots(malloc.slabs[2]) # {}
    /\ HasRoom(malloc.arena, 257)
    /\ malloc.arena.cursor > malloc.arena.start
    /\ ~CryptMalloc_allocate(malloc, 1).is_some
    /\ CryptMalloc_allocate(malloc, 257).is_some

(* ------------------------ the null pointer --------------------------- *)

(* EncryptedPtr's null, which is also the pointer of a failed allocation:
   EncryptedOption::none(EncryptedPtr(enc_zero)). *)
NullPointer == 0

(* C36: CryptMalloc::free of the null pointer is a no-op: it leaves every
   slab bitmap unchanged in every allocator state, with live allocations or
   without. *)
C36_FreeOfNullIsNoOp ==
    \A k \in 1..Len(malloc.slabs) :
        CryptMalloc_free(malloc, NullPointer).slabs[k].bitmap = malloc.slabs[k].bitmap

(* ------------------- callers that own allocations -------------------- *)

(* The bytes an allocation of the requested size occupies: the slot of its
   tier, or the request itself in the arena. *)
Extent(size) ==
    IF size <= size_bounds[5] THEN size_bounds[RoutedTier(size)] ELSE size

(* allocate: a successful call hands its pointer to the caller. *)
OwnedAllocate ==
    /\ \E size \in AllocSizes :
        \E r \in {CryptMalloc_allocate(malloc, size)} :
            /\ malloc' = r.malloc
            /\ owned' = IF r.is_some
                        THEN [allocations |-> owned.allocations
                                  \cup {[ptr |-> r.value, extent |-> Extent(size)]},
                              doubled |-> owned.doubled
                                  \/ \E a \in owned.allocations : a.ptr = r.value]
                        ELSE owned
    /\ UNCHANGED <<pool, held, regs, wire, keys, evm, shadow>>

(* free: only of a pointer the caller owns, which it then owns no more. *)
OwnedFree ==
    /\ \E a \in owned.allocations :
        /\ malloc' = CryptMalloc_free(malloc, a.ptr)
        /\ owned' = [owned EXCEPT !.allocations = owned.allocations \ {a}]
    /\ UNCHANGED <<pool, held, regs, wire, keys, evm, shadow>>

NextOwned == OwnedAllocate \/ OwnedFree

SpecOwned == InitMalloc /\ [][NextOwned]_vars

(* C37: when free is applied only to pointers of successful allocations not
   freed yet, no two live allocations have the same pointer or overlapping
   extents: slab allocations occupy distinct slots, arena allocations
   disjoint ranges above all tiers. *)
C37_LiveAllocationsAreDisjoint ==
    /\ ~owned.doubled
    /\ \A a, b \in owned.allocations :
        a # b => (a.ptr + a.extent <= b.ptr \/ b.ptr + b.extent <= a.ptr)
    /\ \A a \in owned.allocations :
        IF a.extent <= size_bounds[5]
        THEN \E k \in 1..Len(malloc.slabs) :
                /\ malloc.slabs[k].block_size = a.extent
                /\ \E i \in 1..malloc.slabs[k].num_blocks :
                    a.ptr = SlotAddress(malloc.slabs[k], i) /\ malloc.slabs[k].bitmap[i]
        ELSE /\ \A k \in 1..Len(malloc.slabs) :
                a.ptr >= malloc.slabs[k].base_offset
                             + malloc.slabs[k].block_size * malloc.slabs[k].num_blocks
             /\ a.ptr + a.extent <= malloc.arena.cursor

(* Two arena allocations and the second slot of the first tier are owned,
   the first slot having been freed. *)
C37_Witness ==
    /\ Cardinality({a \in owned.allocations : a.extent > size_bounds[5]}) = 2
    /\ \E a \in owned.allocations : a.ptr = SlotAddress(malloc.slabs[1], 2)
    /\ \A a \in owned.allocations : a.ptr # SlotAddress(malloc.slabs[1], 1)
    /\ ~malloc.slabs[1].bitmap[1]

(* ----------------------- the installed server key -------------------- *)

(* Server keys are numbered in the order generate_keys makes them.  k is the
   key state of the process and the calling thread: GLOBAL_SERVER_KEY, the
   key tfhe has installed on the thread, and the keys the homomorphic
   operations of the last allocator call ran under. *)

(* tfhe::set_server_key: installs the key on the calling thread. *)
set_server_key(k, server_key) == [k EXCEPT !.installed = Some(server_key)]

(* keys::install_global_server_key *)
install_global_server_key(k, server_key) == [k EXCEPT !.global = Some(server_key)]

(* Keys::new: a fresh key pair, installed on the thread and published in
   GLOBAL_SERVER_KEY. *)
Keys_new(k) ==
    Bind(IF k.global = None THEN 1 ELSE Unwrap(k.global) + 1, LAMBDA server_key :
    install_global_server_key(set_server_key(k, server_key), server_key))

(* keys::clone_global_server_key: what GLOBAL_SERVER_KEY holds. *)
clone_global_server_key(k) == k.global

(* encrypted_option::reseat_server_key *)
reseat_server_key(k) ==
    IF clone_global_server_key(k) # None
    THEN set_server_key(k, Unwrap(clone_global_server_key(k)))
    ELSE k

(* EncryptedPtr::new does the same before it wraps the offset. *)
EncryptedPtr_new(k) ==
    IF clone_global_server_key(k) # None
    THEN set_server_key(k, Unwrap(clone_global_server_key(k)))
    ELSE k

(* A homomorphic operation of tfhe: it computes under the installed key. *)
homomorphic(k) == [k EXCEPT !.ran = k.ran \cup k.installed]

(* SlabClass::allocate_masked: own key, the two scans, EncryptedPtr::new. *)
SlabClass_allocate_masked_keys(k, server_key) ==
    EncryptedPtr_new(homomorphic(set_server_key(k, server_key)))

(* SlabClass::free: own key, one scan. *)
SlabClass_free_keys(k, server_key) == homomorphic(set_server_key(k, server_key))

(* Arena::allocate: own key, the bounds check, EncryptedPtr::new. *)
Arena_allocate_keys(k, server_key) ==
    EncryptedPtr_new(homomorphic(set_server_key(k, server_key)))

(* CipherSelectable for EncryptedPtr: reseat, if_then_else, EncryptedPtr::new. *)
EncryptedPtr_select(k) == EncryptedPtr_new(homomorphic(reseat_server_key(k)))

(* EncryptedOption::combine_with: reseat, select, then the or of the flags. *)
combine_with_keys(k) == homomorphic(EncryptedPtr_select(reseat_server_key(k)))

(* EncryptedOption::none *)
EncryptedOption_none(k) == reseat_server_key(k)

(* The loop over the tiers of allocate, n tiers to go. *)
RECURSIVE slab_results_keys(_, _, _)
slab_results_keys(k, server_key, n) ==
    IF n = 0 THEN k
    ELSE slab_results_keys(SlabClass_allocate_masked_keys(k, server_key), server_key, n - 1)

(* The fold of allocate, n results to go. *)
RECURSIVE combine_all_keys(_, _)
combine_all_keys(k, n) ==
    IF n = 0 THEN k ELSE combine_all_keys(combine_with_keys(k), n - 1)

(* CryptMalloc::allocate, statement by statement: the keys its homomorphic
   operations run under. *)
CryptMalloc_allocate_keys(k, server_key) ==
    Bind(set_server_key([k EXCEPT !.ran = {}], server_key), LAMBDA entered :
    Bind(homomorphic(entered), LAMBDA routed :
    Bind(slab_results_keys(routed, server_key, Len(slab_configs)), LAMBDA scanned :
    Bind(homomorphic(scanned), LAMBDA use_arena :
    Bind(Arena_allocate_keys(use_arena, server_key), LAMBDA arena_raw :
    Bind(homomorphic(arena_raw), LAMBDA arena_masked :
    Bind(EncryptedOption_none(arena_masked), LAMBDA result :
    combine_all_keys(result, Len(slab_configs) + 1))))))))

(* The loop over the tiers of free. *)
RECURSIVE slabs_free_keys(_, _, _)
slabs_free_keys(k, server_key, n) ==
    IF n = 0 THEN k
    ELSE slabs_free_keys(SlabClass_free_keys(k, server_key), server_key, n - 1)

(* CryptMalloc::free *)
CryptMalloc_free_keys(k, server_key) ==
    slabs_free_keys(set_server_key([k EXCEPT !.ran = {}], server_key), server_key,
                    Len(slab_configs))

(* CryptMalloc::new makes the first Keys of the process; its server key is
   the allocator's own. *)
OwnKey == Unwrap(Keys_new(NoKeys).installed)

InitInstalled ==
    /\ plain = [total_bytes |-> TotalBytes, base_address |-> 1, min_alignment |-> 1]
    /\ metadata = [capacity |-> TotalBytes, base_address |-> 1, min_alignment |-> 1]
    /\ digest = Sha256(TotalBytes, 1, 1)
    /\ state = build(TotalBytes, 1, 1)
    /\ calls_ok = TRUE
    /\ lock = None
    /\ pc = [t \in Workers |-> "done"]
    /\ local = [t \in Workers |-> NoLocals]
    /\ observed = NoObservation
    /\ malloc = CryptMalloc_new(ArenaSize)
    /\ held = with_layout("pool", 0, 0, 0)
    /\ regs = NoRegs
    /\ wire = NoWire
    /\ owned = NoOwned
    /\ keys = Keys_new(NoKeys)
    /\ evm = NoEvm
    /\ shadow = << >>

InstalledAllocate ==
    /\ \E size \in AllocSizes :
        \E r \in {CryptMalloc_allocate(malloc, size)} : malloc' = r.malloc
    /\ keys' = CryptMalloc_allocate_keys(keys, OwnKey)
    /\ UNCHANGED <<pool, held, regs, wire, owned, evm, shadow>>

InstalledFree ==
    /\ \E ptr \in FreePointers(malloc) : malloc' = CryptMalloc_free(malloc, ptr)
    /\ keys' = CryptMalloc_free_keys(keys, OwnKey)
    /\ UNCHANGED <<pool, held, regs, wire, owned, evm, shadow>>

(* Another Keys, or another CryptMalloc with it, is created later. *)
KeysNew ==
    /\ Unwrap(keys.global) < MaxKeys
    /\ keys' = Keys_new(keys)
    /\ UNCHANGED <<pool, malloc, held, regs, wire, owned, evm, shadow>>

(* Some instance made so far is used on the thread: each of their methods
   starts by installing its own key (Keys::enc_u64, for one). *)
KeysEncrypt ==
    /\ \E server_key \in 1..Unwrap(keys.global) :
        keys' = set_server_key(keys, server_key)
    /\ UNCHANGED <<pool, malloc, held, regs, wire, owned, evm, shadow>>

NextInstalled == InstalledAllocate \/ InstalledFree \/ KeysNew \/ KeysEncrypt

SpecInstalled == InitInstalled /\ [][NextInstalled]_vars

(* C38: every homomorphic operation inside CryptMalloc::allocate and
   CryptMalloc::free runs while the key installed on the calling thread is
   the allocator's own server key, also when another Keys or CryptMalloc was
   created later or used before on the same thread. *)
C38_OperationsRunUnderOwnKey == keys.ran \subseteq {OwnKey}

(* ------------------------- selecting an option ------------------------ *)

(* A pointer's span is an option: select_option picks between the spans of
   two pointers.  A span that comes out present replaces the left operand. *)
OpSelectOption ==
    /\ \E when_true \in {None, Some(regs.lhs)}, when_false \in {None, Some(regs.rhs)} :
        \E r \in {select_option(regs.flag, when_true, when_false)} :
            regs' = IF r.err = "Ok" /\ Unwrap(r.out) # None
                    THEN [regs EXCEPT !.lhs = Unwrap(Unwrap(r.out))]
                    ELSE regs
    /\ UNCHANGED others

NextSelect == NextOps \/ OpSelectOption

SpecSelect == InitOps /\ [][NextSelect]_vars

Plaintexts(option) == {c.value : c \in option}

(* C39: select_option(cond, when_true, when_false) returns when_true, present
   or absent, when cond decrypts to true, and when_false, present or absent,
   when cond decrypts to false: for all four combinations of present and
   absent options a successful call returns an option that is present exactly
   when the chosen one is, with the chosen one's plaintext. *)
C39_SelectOptionFollowsCondition ==
    \A when_true \in {None, Some(regs.lhs)}, when_false \in {None, Some(regs.rhs)} :
        \A r \in {select_option(regs.flag, when_true, when_false)} :
            r.err = "Ok" =>
                Plaintexts(Unwrap(r.out))
                    = Plaintexts(IF EncryptedBool_decrypt(regs.flag) THEN when_true ELSE when_false)

(* ------------------------------ EVM stack ----------------------------- *)

EVM_new == [stack |-> << >>, stack_len |-> 0]

(* stack_push appends to the vector in every call and counts in stack_len
   only the pushes that took effect. *)
stack_push(e, value, condition) ==
    LET has_space == e.stack_len < StackCap
        can_push == has_space /\ condition
        stored == IF can_push THEN value ELSE 0
        bumped == e.stack_len + 1
    IN  [stack |-> Append(e.stack, stored),
         stack_len |-> IF can_push THEN bumped ELSE e.stack_len]

(* The scan of stack_pop over the indices idx, idx + 1, .., StackCap - 1. *)
RECURSIVE stack_scan(_, _, _, _, _)
stack_scan(e, can_pop, target_index, idx, value) ==
    IF idx >= StackCap THEN value
    ELSE LET slot == IF idx < Len(e.stack) THEN e.stack[idx + 1] ELSE 0
             is_target == can_pop /\ idx = target_index
         IN  stack_scan(e, can_pop, target_index, idx + 1, IF is_target THEN slot ELSE value)

(* On an empty stack the u32 subtraction wraps to 2^32 - 1; like - 1 here it
   is the index of no slot of the scan, and can_pop is false with it. *)
stack_pop(e, condition) ==
    LET has_item == e.stack_len > 0
        can_pop == has_item /\ condition
        target_index == e.stack_len - 1
        decremented == e.stack_len - 1
    IN  [evm |-> [e EXCEPT !.stack_len = IF can_pop THEN decremented ELSE e.stack_len],
         value |-> stack_scan(e, can_pop, target_index, 0, 0)]

Words == 0..MaxWord

InitEvm ==
    /\ InitMalloc
    /\ evm = EVM_new

unstacked ==
    <<plain, metadata, digest, state, calls_ok, lock, pc, local, observed, malloc, held, regs,
      wire, owned, keys>>

(* shadow is the stack a caller has in mind: the values of the pushes that
   took effect and were not popped, the latest last. *)
EvmPush ==
    /\ Len(evm.stack) < MaxPushes
    /\ \E value \in Words, condition \in BOOLEAN :
        /\ evm' = stack_push(evm, value, condition)
        /\ shadow' = IF condition /\ Len(shadow) < StackCap THEN Append(shadow, value)
                     ELSE shadow
    /\ UNCHANGED unstacked

EvmPop ==
    /\ \E condition \in BOOLEAN :
        /\ evm' = stack_pop(evm, condition).evm
        /\ shadow' = IF condition /\ shadow # << >> THEN SubSeq(shadow, 1, Len(shadow) - 1)
                     ELSE shadow
    /\ UNCHANGED unstacked

NextEvm == EvmPush \/ EvmPop

SpecEvm == InitEvm /\ [][NextEvm]_vars

(* C40: the EVM's stack is LIFO under any sequence of stack_push and
   stack_pop calls with true or false conditions: a stack_pop with a true
   condition on a non-empty stack returns the value of the most recent
   effective push that has not been popped, pushes with a false condition
   change nothing for later pops, a pop on an empty stack returns 0 and
   leaves stack_len as it is, and 0 <= stack_len <= StackCap at all times. *)
C40_StackIsLifo ==
    /\ evm.stack_len \in 0..StackCap
    /\ \A condition \in BOOLEAN :
        \A r \in {stack_pop(evm, condition)} :
            /\ condition /\ shadow # << >> => r.value = shadow[Len(shadow)]
            /\ shadow = << >> => r.value = 0 /\ r.evm.stack_len = evm.stack_len

====
